---- MODULE Spec2Model ----
(***************************************************************************)
(* Verification model of the market-pulse multi-agent backend:            *)
(*   - SummaryGenerationAgent.execute (app/agents/summary_generation_agent)*)
(*   - VertexAIClient.chat_with_tools (app/utils/vertex_ai_client)         *)
(*   - CacheService get / set / invalidate (app/services/cache_service)    *)
(*   - the three-phase orchestration (specified in spec.md, section 4.8)   *)
(* Texts are sequences of one-character strings, so that substring tests,  *)
(* lower-casing, slicing and concatenation are computed, not assumed.      *)
(* An Optional value is a sequence of length 0 (None) or 1 (the value).    *)
(***************************************************************************)
EXTENDS Integers, Sequences, FiniteSets, TLC

VARIABLES
    \* ---- SummaryGenerationAgent.execute
    sgPc,        \* "ready" | "done"
    sgInput,     \* SummaryGenerationAgentInput
    sgOutput,    \* Optional SummaryGenerationAgentOutput
    \* ---- VertexAIClient.chat_with_tools
    chatPc,      \* position inside chat_with_tools
    chatCfg,     \* [max_turns, tool_handlers]
    turns,       \* local variable turns
    current_response,   \* last response of the model
    function_calls,     \* function-call parts of the turn being processed
    fcIdx,              \* index of the next function call to process
    function_responses, \* function-response parts collected in this turn
    sent,        \* [count, last]: messages sent to the model, and the last one
    invoked,     \* handler invocations of the current turn, in order
    chatResult,  \* Optional outcome of chat_with_tools: returned or raised
    \* ---- CacheService
    cache,       \* [enabled, client]  (self._enabled, self._redis)
    backend,     \* the Redis server: the entries [key, value, ttl] it holds
    lastSet,     \* history: [agent_name, canonical, output] of the writes in force
    cacheOp,     \* the last cache operation and what it returned
    \* ---- Orchestrator
    orch,        \* the orchestration: phase, degraded_mode, warnings, outcome, ...
    agent,       \* agent name -> its task: [status, output]
    hist,        \* history of orchestration events, in order
    \* ---- a single call of a pure function (parse_json_response, ...)
    fnPc,        \* "idle" | "ready" | "done"
    fnArgs,      \* the arguments of the call
    fnResult,    \* Optional outcome of the call: returned or raised
    \* ---- the agent runtime (specified in spec.md, section 4.4)
    run,         \* the agent execution under way: position, counters, outcome
    runs,        \* the executions that ended and the expiries, in order
    \* ---- the middlewares and the logging context
    http,        \* the HTTP request in flight: position in the stack, state, outcome
    logContext   \* structlog's context variables: key -> value

sgVars    == <<sgPc, sgInput, sgOutput>>
chatVars  == <<chatPc, chatCfg, turns, current_response, function_calls, fcIdx,
               function_responses, sent, invoked, chatResult>>
cacheVars == <<cache, backend, lastSet, cacheOp>>
orchVars  == <<orch, agent, hist>>
fnVars    == <<fnPc, fnArgs, fnResult>>
rtVars    == <<run, runs>>
httpVars  == <<http, logContext>>
vars      == <<sgVars, chatVars, cacheVars, orchVars, fnVars, rtVars, httpVars>>

----------------------------------------------------------------------------
(* Optional values and texts *)

None == <<>>
Some(x) == <<x>>
IsNone(o) == o = <<>>
TheValue(o) == o[1]

Min(a, b) == IF a <= b THEN a ELSE b
Abs(n) == IF n < 0 THEN -n ELSE n

\* s[:n] of Python
Take(s, n) == SubSeq(s, 1, Min(n, Len(s)))

UpperChars == <<"A","B","C","D","E","F","G","H","I","J","K","L","M",
                "N","O","P","Q","R","S","T","U","V","W","X","Y","Z">>
LowerChars == <<"a","b","c","d","e","f","g","h","i","j","k","l","m",
                "n","o","p","q","r","s","t","u","v","w","x","y","z">>

\* str.lower() on one character
LowerChar(c) ==
    IF \E i \in 1..26 : UpperChars[i] = c
    THEN LowerChars[CHOOSE i \in 1..26 : UpperChars[i] = c]
    ELSE c

\* str.lower()
Lower(s) == [i \in 1..Len(s) |-> LowerChar(s[i])]

\* Python's `k in t` on strings
IsSubstring(k, t) ==
    \E i \in 0..(Len(t) - Len(k)) : \A j \in 1..Len(k) : t[i + j] = k[j]

\* str.endswith / str.startswith
EndsWith(t, k) == Len(k) <= Len(t) /\ SubSeq(t, Len(t) - Len(k) + 1, Len(t)) = k

RECURSIVE Join(_, _)
\* sep.join(parts)
Join(parts, sep) ==
    IF parts = <<>> THEN <<>>
    ELSE IF Len(parts) = 1 THEN parts[1]
    ELSE parts[1] \o sep \o Join(Tail(parts), sep)

Digits == <<"0","1","2","3","4","5","6","7","8","9">>

RECURSIVE NatToText(_)
NatToText(n) == IF n < 10 THEN <<Digits[n + 1]>>
                ELSE NatToText(n \div 10) \o <<Digits[(n % 10) + 1]>>

\* f"{x:.1f}" for a number given in tenths (x = tenths / 10)
Format1f(tenths) ==
    (IF tenths < 0 THEN <<"-">> ELSE <<>>)
      \o NatToText(Abs(tenths) \div 10) \o <<".">> \o <<Digits[(Abs(tenths) % 10) + 1]>>

RECURSIVE InsertDesc(_, _)
\* the pair x = <<key, value>> placed after every pair whose key is >= its own
InsertDesc(x, s) ==
    IF s = <<>> THEN <<x>>
    ELSE IF Head(s)[1] >= x[1] THEN <<Head(s)>> \o InsertDesc(x, Tail(s))
    ELSE <<x>> \o s

RECURSIVE SortPairsDesc(_)
SortPairsDesc(s) ==
    IF s = <<>> THEN <<>>
    ELSE InsertDesc(s[Len(s)], SortPairsDesc(SubSeq(s, 1, Len(s) - 1)))

\* sorted(s, key=..., reverse=True) where keys[i] is the key of s[i]:
\* stable, elements of equal key keep their input order
SortedDesc(s, keys) ==
    LET sortedPairs == SortPairsDesc([i \in 1..Len(s) |-> <<keys[i], s[i]>>])
    IN  [i \in 1..Len(s) |-> sortedPairs[i][2]]

----------------------------------------------------------------------------
(* SummaryGenerationAgent: constants *)

CAUSAL_KEYWORDS == <<
    <<"d","u","e"," ","t","o">>,
    <<"a","f","t","e","r">>,
    <<"f","o","l","l","o","w","i","n","g">>,
    <<"d","r","i","v","e","n"," ","b","y">>,
    <<"a","s">>,
    <<"b","e","c","a","u","s","e">>,
    <<"o","n"," ","a","c","c","o","u","n","t"," ","o","f">>,
    <<"a","m","i","d">>,
    <<"o","n"," ","t","h","e"," ","b","a","c","k"," ","o","f">>,
    <<"t","r","i","g","g","e","r","e","d"," ","b","y">>,
    <<"l","e","d"," ","b","y">>,
    <<"s","u","p","p","o","r","t","e","d"," ","b","y">>,
    <<"w","e","i","g","h","e","d"," ","b","y">> >>

\* sorted_news[:5] and sorted_news[:5] of the trending section
TopNewsConsidered == 5
TrendingLimit == 5
\* headline slices of _create_causal_bullet
StockHeadlineChars == 60
SectorHeadlineChars == 50
\* confidence of a theme-derived bullet, in hundredths (0.75)
ThemeBulletConfidence == 75
\* takeaways[:4]
MaxTakeaways == 4


----------------------------------------------------------------------------
(* SummaryGenerationAgent: text of the enumerated values that are          *)
(* interpolated into f-strings                                             *)

EnumText(e) ==
    CASE e = "bullish"  -> <<"b","u","l","l","i","s","h">>
      [] e = "bearish"  -> <<"b","e","a","r","i","s","h">>
      [] e = "neutral"  -> <<"n","e","u","t","r","a","l">>
      [] e = "positive" -> <<"p","o","s","i","t","i","v","e">>
      [] e = "negative" -> <<"n","e","g","a","t","i","v","e">>
      [] e = "mixed"    -> <<"m","i","x","e","d">>

\* connectors[0] of _create_causal_bullet
Connector(sentiment) ==
    IF sentiment = "bullish" THEN <<"d","r","i","v","e","n"," ","b","y">>
    ELSE IF sentiment = "bearish" THEN <<"w","e","i","g","h","e","d"," ","b","y">>
    ELSE <<"a","m","i","d">>

\* _create_causal_bullet(nwi, indices_data, outlook_text)
CreateCausalBullet(nwi) ==
    LET news == nwi.news_item
        connector == Connector(news.sentiment)
    IN  IF nwi.impacted_stocks # <<>> THEN
            Join(Take(nwi.impacted_stocks, 3), <<",", " ">>) \o <<" ">>
              \o (IF news.sentiment = "bullish"
                  THEN <<"g","a","i","n","e","d">>
                  ELSE <<"f","a","c","e","d"," ","p","r","e","s","s","u","r","e">>)
              \o <<" ">> \o connector \o <<" ">>
              \o Take(Lower(news.headline), StockHeadlineChars) \o <<".">>
        ELSE IF nwi.sector_impacts # <<>> THEN
            \* list(sector_impacts.keys())[0]: the first key in insertion order
            LET sector == nwi.sector_impacts[1][1]
                impact == nwi.sector_impacts[1][2]
            IN  sector \o <<" ","s","e","c","t","o","r"," ","s","h","o","w","s"," ">>
                  \o EnumText(impact) \o <<" ","m","o","m","e","n","t","u","m"," ">>
                  \o connector \o <<" ">>
                  \o Take(Lower(news.headline), SectorHeadlineChars) \o <<".">>
        ELSE <<>>

\* sentiment_words.get(theme.overall_sentiment, "movement")
SentimentWords(s) ==
    CASE s = "bullish" -> <<"p","o","s","i","t","i","v","e"," ","m","o","m","e","n","t","u","m">>
      [] s = "bearish" -> <<"h","e","a","d","w","i","n","d","s">>
      [] s = "neutral" -> <<"c","o","n","s","o","l","i","d","a","t","i","o","n">>
      [] s = "mixed"   -> <<"m","i","x","e","d"," ","s","i","g","n","a","l","s">>
      [] OTHER         -> <<"m","o","v","e","m","e","n","t">>

\* _create_theme_bullet(theme, outlook_text)
CreateThemeBullet(theme) ==
    LET sentiment_desc == SentimentWords(theme.overall_sentiment)
    IN  IF theme.impacted_stocks # <<>> THEN
            Join(Take(theme.impacted_stocks, 3), <<",", " ">>)
              \o <<" ","s","h","o","w","i","n","g"," ">> \o sentiment_desc
              \o <<" ","d","r","i","v","e","n"," ","b","y"," ">>
              \o Lower(theme.theme_name)
              \o <<" ","d","e","v","e","l","o","p","m","e","n","t","s",".">>
        ELSE
            theme.theme_name
              \o <<" ","s","e","c","t","o","r"," ","s","e","e","i","n","g"," ">>
              \o sentiment_desc
              \o <<" ","o","n"," ","t","h","e"," ","b","a","c","k"," ","o","f"," ",
                   "r","e","c","e","n","t"," ","n","e","w","s"," ","f","l","o","w",".">>

\* _has_causal_language(text)
HasCausalLanguage(text) ==
    LET text_lower == Lower(text)
    IN  \E k \in 1..Len(CAUSAL_KEYWORDS) : IsSubstring(CAUSAL_KEYWORDS[k], text_lower)

\* sentinel of the theme search: no theme holds the news item
NoTheme == 0

\* index of the first theme whose news_items hold the id (the loop's `break`)
FirstThemeOf(news_id, themes) ==
    IF \E t \in 1..Len(themes) : \E n \in 1..Len(themes[t].news_items) :
            themes[t].news_items[n] = news_id
    THEN CHOOSE t \in 1..Len(themes) :
            /\ \E n \in 1..Len(themes[t].news_items) : themes[t].news_items[n] = news_id
            /\ \A u \in 1..(t - 1) : \A n \in 1..Len(themes[u].news_items) :
                    themes[u].news_items[n] # news_id
    ELSE NoTheme

\* used_themes after the theme search of one news item
UsedThemesAfter(nwi, themes, used_themes) ==
    LET t == FirstThemeOf(nwi.news_id, themes)
    IN  IF t # NoTheme /\ themes[t].theme_name \notin used_themes
        THEN used_themes \cup {themes[t].theme_name}
        ELSE used_themes

\* MarketSummaryBullet built from a news item and its checked text
MakeNewsBulletBadText(nwi, bullet_text) ==
    [text |-> nwi.news_item.headline,
     supporting_news_ids |-> <<nwi.news_id>>,
     confidence |-> nwi.impact_confidence,
     sentiment |-> nwi.news_item.sentiment]

MakeNewsBullet(nwi, bullet_text) ==
    [text |-> bullet_text,
     supporting_news_ids |-> <<nwi.news_id>>,
     confidence |-> nwi.impact_confidence,
     sentiment |-> IF nwi.news_item.sentiment = "bullish" THEN "bullish"
                   ELSE IF nwi.news_item.sentiment = "bearish" THEN "bearish"
                   ELSE "neutral"]

\* MarketSummaryBullet built from a theme
MakeThemeBullet(theme, bullet_text) ==
    [text |-> bullet_text,
     supporting_news_ids |-> Take(theme.news_items, 2),
     confidence |-> ThemeBulletConfidence,
     sentiment |-> theme.overall_sentiment]

\* a test that stops one bullet late
BulletsFullLate(bullets, input) == Len(bullets) > input.max_bullets

\* `if len(bullets) >= input_data.max_bullets: break` of both loops
BulletsFull(bullets, input) == Len(bullets) >= input.max_bullets

RECURSIVE NewsLoop(_, _, _, _)
\* the loop `for nwi in sorted_news[:5]`; yields [bullets, used_themes]
NewsLoop(news, bullets, used_themes, input) ==
    IF news = <<>> \/ BulletsFull(bullets, input)
    THEN [bullets |-> bullets, used_themes |-> used_themes]
    ELSE LET nwi == Head(news)
             used == UsedThemesAfter(nwi, input.refined_themes, used_themes)
             bullet_text == CreateCausalBullet(nwi)
         IN  IF bullet_text # <<>> /\ HasCausalLanguage(bullet_text)
             THEN NewsLoop(Tail(news), Append(bullets, MakeNewsBullet(nwi, bullet_text)),
                           used, input)
             ELSE NewsLoop(Tail(news), bullets, used, input)

RECURSIVE ThemeLoop(_, _, _, _)
\* the loop `for theme in input_data.refined_themes`
ThemeLoop(themes, bullets, used_themes, input) ==
    IF themes = <<>> \/ BulletsFull(bullets, input) THEN bullets
    ELSE LET theme == Head(themes)
             bullet_text == CreateThemeBullet(theme)
         IN  IF theme.theme_name \in used_themes
             THEN ThemeLoop(Tail(themes), bullets, used_themes, input)
             ELSE IF bullet_text # <<>> /\ HasCausalLanguage(bullet_text)
             THEN ThemeLoop(Tail(themes), Append(bullets, MakeThemeBullet(theme, bullet_text)),
                            used_themes, input)
             ELSE ThemeLoop(Tail(themes), bullets, used_themes, input)

\* _generate_causal_summaries(input_data)
GenerateCausalSummaries(input) ==
    LET sorted_news == SortedDesc(input.news_with_impacts,
                                  [i \in 1..Len(input.news_with_impacts) |->
                                      input.news_with_impacts[i].impact_confidence])
        afterNews == NewsLoop(Take(sorted_news, TopNewsConsidered), <<>>, {}, input)
    IN  IF Len(afterNews.bullets) < input.max_bullets
        THEN ThemeLoop(input.refined_themes, afterNews.bullets, afterNews.used_themes, input)
        ELSE afterNews.bullets

\* a sort that is not stable and not descending: the list left as it came
TrendingUnsorted(input) ==
    Take([i \in 1..Len(input.news_with_impacts) |-> input.news_with_impacts[i].news_item],
         TrendingLimit)

\* _generate_trending_now(input_data)
GenerateTrendingNow(input) ==
    LET all_news == [i \in 1..Len(input.news_with_impacts) |->
                        input.news_with_impacts[i].news_item]
        sorted_news == SortedDesc(all_news,
                                  [i \in 1..Len(all_news) |-> all_news[i].published_at])
    IN  Take(sorted_news, TrendingLimit)

\* a return statement without the default text
JoinPartsNoDefault(parts) == Join(parts, <<" ">>)

\* `return " ".join(parts) if parts else "Market activity ongoing. ..."`
JoinParts(parts) ==
    IF parts # <<>> THEN Join(parts, <<" ">>)
    ELSE <<"M","a","r","k","e","t"," ","a","c","t","i","v","i","t","y"," ",
           "o","n","g","o","i","n","g","."," ","K","e","y"," ",
           "d","e","v","e","l","o","p","m","e","n","t","s"," ",
           "b","e","i","n","g"," ","m","o","n","i","t","o","r","e","d",".">>

\* _generate_executive_summary(input_data, bullets)
GenerateExecutiveSummary(input) ==
    LET outlookPart ==
            IF IsNone(input.market_outlook) THEN <<>>
            ELSE LET direction == TheValue(input.market_outlook).sentiment
                     change == TheValue(input.market_outlook).nifty_change_tenths
                 IN  IF direction = "bullish" THEN
                        << <<"M","a","r","k","e","t","s"," ","t","r","a","d","i","n","g"," ",
                             "h","i","g","h","e","r"," ","w","i","t","h"," ",
                             "N","I","F","T","Y"," ","u","p"," ">>
                           \o Format1f(change) \o <<"%",".">> >>
                     ELSE IF direction = "bearish" THEN
                        << <<"M","a","r","k","e","t","s"," ","u","n","d","e","r"," ",
                             "p","r","e","s","s","u","r","e"," ","w","i","t","h"," ",
                             "N","I","F","T","Y"," ","d","o","w","n"," ">>
                           \o Format1f(Abs(change)) \o <<"%",".">> >>
                     ELSE
                        << <<"M","a","r","k","e","t","s"," ","t","r","a","d","i","n","g"," ",
                             "f","l","a","t"," ","w","i","t","h"," ",
                             "N","I","F","T","Y"," ","a","t"," ">>
                           \o Format1f(change) \o <<"%",".">> >>
        themePart ==
            IF input.refined_themes = <<>> THEN <<>>
            ELSE LET top_theme == input.refined_themes[1]
                 IN  IF top_theme.overall_sentiment = "bullish" THEN
                        << <<"K","e","y"," ","d","r","i","v","e","r",":"," ">>
                           \o top_theme.theme_name
                           \o <<" ","p","r","o","v","i","d","i","n","g"," ",
                                "s","u","p","p","o","r","t",".">> >>
                     ELSE IF top_theme.overall_sentiment = "bearish" THEN
                        << <<"P","r","e","s","s","u","r","e"," ","f","r","o","m",":"," ">>
                           \o top_theme.theme_name
                           \o <<" ","w","e","i","g","h","i","n","g"," ","o","n"," ",
                                "s","e","n","t","i","m","e","n","t",".">> >>
                     ELSE <<>>
        portfolioPart ==
            IF IsNone(input.portfolio_impact) THEN <<>>
            ELSE IF TheValue(input.portfolio_impact).overall_sentiment = "positive" THEN
                << <<"Y","o","u","r"," ","p","o","r","t","f","o","l","i","o"," ",
                     "p","o","s","i","t","i","o","n","e","d"," ","t","o"," ",
                     "b","e","n","e","f","i","t"," ","f","r","o","m"," ",
                     "c","u","r","r","e","n","t"," ","t","r","e","n","d","s",".">> >>
            ELSE IF TheValue(input.portfolio_impact).overall_sentiment = "negative" THEN
                << <<"M","o","n","i","t","o","r"," ","p","o","r","t","f","o","l","i","o"," ",
                     "e","x","p","o","s","u","r","e"," ","t","o"," ",
                     "c","u","r","r","e","n","t"," ","h","e","a","d","w","i","n","d","s",".">> >>
            ELSE <<>>
    IN  JoinParts(outlookPart \o themePart \o portfolioPart)

RECURSIVE ThemeTakeaways(_)
\* the loop `for theme in input_data.refined_themes[:2]` of _extract_key_takeaways
ThemeTakeaways(themes) ==
    IF themes = <<>> THEN <<>>
    ELSE LET theme == Head(themes)
             own == IF theme.overall_sentiment = "bullish" THEN
                        << theme.theme_name
                           \o <<" ","s","h","o","w","i","n","g"," ",
                                "s","t","r","e","n","g","t","h">> >>
                    ELSE IF theme.overall_sentiment = "bearish" THEN
                        << <<"C","a","u","t","i","o","n"," ","i","n"," ">>
                           \o theme.theme_name >>
                    ELSE <<>>
         IN  own \o ThemeTakeaways(Tail(themes))

\* _extract_key_takeaways(input_data)
ExtractKeyTakeaways(input) ==
    LET outlookPart ==
            IF IsNone(input.market_outlook) THEN <<>>
            ELSE << <<"M","a","r","k","e","t"," ","s","e","n","t","i","m","e","n","t"," ",
                      "i","s"," ">>
                    \o EnumText(TheValue(input.market_outlook).sentiment) >>
        portfolioPart ==
            IF IsNone(input.portfolio_impact) THEN <<>>
            ELSE IF TheValue(input.portfolio_impact).top_affected_holdings = <<>> THEN <<>>
            ELSE << <<"W","a","t","c","h"," ">>
                    \o TheValue(input.portfolio_impact).top_affected_holdings[1]
                    \o <<" ","f","o","r"," ","n","e","a","r","-","t","e","r","m"," ",
                         "m","o","v","e","m","e","n","t">> >>
    IN  Take(outlookPart \o ThemeTakeaways(Take(input.refined_themes, 2)) \o portfolioPart,
             MaxTakeaways)

\* the phase test of execute, with the two branches exchanged
ExecuteSectionsSwapped(input) ==
    IF input.market_phase # "mid"
    THEN [market_summary_bullets |-> None,
          trending_now_section |-> Some(GenerateTrendingNow(input))]
    ELSE [market_summary_bullets |-> Some(GenerateCausalSummaries(input)),
          trending_now_section |-> None]

\* the two optional sections of execute: trending news in mid market,
\* causal bullets otherwise
ExecuteSections(input) ==
    IF input.market_phase = "mid"
    THEN [market_summary_bullets |-> None,
          trending_now_section |-> Some(GenerateTrendingNow(input))]
    ELSE [market_summary_bullets |-> Some(GenerateCausalSummaries(input)),
          trending_now_section |-> None]

\* SummaryGenerationAgent.execute(input_data, context): the returned output
ExecuteOutput(input) ==
    LET sections == ExecuteSections(input)
        bullets_generated ==
            IF IsNone(sections.market_summary_bullets) THEN 0
            ELSE Len(TheValue(sections.market_summary_bullets))
    IN  [market_summary_bullets |-> sections.market_summary_bullets,
         trending_now_section |-> sections.trending_now_section,
         executive_summary |-> GenerateExecutiveSummary(input),
         key_takeaways |-> ExtractKeyTakeaways(input),
         generation_metadata |->
            [bullets_generated |-> bullets_generated,
             market_phase |-> input.market_phase,
             news_analyzed |-> Len(input.news_with_impacts),
             themes_used |-> Len(input.refined_themes)]]

----------------------------------------------------------------------------
(* SummaryGenerationAgent: the inputs explored *)

\* longest news list explored (the sections keep at most 5 items)
MaxNews == 6
\* news lists up to this length are combined with every configuration
ShortNews == 3
\* largest max_bullets explored (the default is 3)
MaxBulletsChoice == 3

NewsIdNames == <<"n1", "n2", "n3", "n4", "n5", "n6", "n7", "n8">>

\* NewsWithImpact values without their id: a bullish item with impacted stocks,
\* a bearish item with sector impacts only, and a neutral item with neither
\* (for which _create_causal_bullet returns "")
NewsPool == {
    [headline |-> <<"R","B","I"," ","c","u","t">>, sentiment |-> "bullish",
     published_at |-> 2, impact_confidence |-> 90,
     impacted_stocks |-> << <<"T","C","S">>, <<"I","N","F","Y">> >>,
     sector_impacts |-> <<>>],
    [headline |-> <<"O","i","l"," ","u","p">>, sentiment |-> "bearish",
     published_at |-> 1, impact_confidence |-> 60,
     impacted_stocks |-> <<>>,
     sector_impacts |-> << <<<<"I","T">>, "negative">>,
                           <<<<"E","n","e","r","g","y">>, "positive">> >>],
    [headline |-> <<"F","l","a","t"," ","d","a","y">>, sentiment |-> "neutral",
     published_at |-> 3, impact_confidence |-> 80,
     impacted_stocks |-> <<>>,
     sector_impacts |-> <<>>] }

\* the NewsWithImpact at position i of the input list; ids are unique in a request
MkNews(i, t) ==
    [news_id |-> NewsIdNames[i],
     news_item |-> [id |-> NewsIdNames[i], headline |-> t.headline,
                    published_at |-> t.published_at, sentiment |-> t.sentiment],
     impacted_stocks |-> t.impacted_stocks,
     sector_impacts |-> t.sector_impacts,
     impact_confidence |-> t.impact_confidence]

NewsLists ==
    UNION { { [i \in 1..n |-> MkNews(i, f[i])] : f \in [1..n -> NewsPool] } : n \in 0..MaxNews }

ThemeBanking ==
    [theme_name |-> <<"B","a","n","k","i","n","g"," ","&"," ",
                      "F","i","n","a","n","c","i","a","l","s">>,
     news_items |-> <<"n1">>, overall_sentiment |-> "bullish",
     impacted_stocks |-> << <<"S","B","I">> >>]
ThemeRealty ==
    [theme_name |-> <<"R","e","a","l"," ","E","s","t","a","t","e">>,
     news_items |-> <<"n2", "n3", "n4">>, overall_sentiment |-> "bearish",
     impacted_stocks |-> <<>>]
ThemeEnergy ==
    [theme_name |-> <<"E","n","e","r","g","y">>,
     news_items |-> <<"n5">>, overall_sentiment |-> "neutral",
     impacted_stocks |-> << <<"O","N","G","C">> >>]
ThemeLists == { <<>>, <<ThemeBanking>>, <<ThemeBanking, ThemeRealty>>,
                <<ThemeRealty, ThemeBanking>>, <<ThemeRealty, ThemeEnergy>> }

\* market_outlook and portfolio_impact, both Optional in the input
Contexts == {
    [market_outlook |-> None, portfolio_impact |-> None],
    [market_outlook |-> Some([sentiment |-> "bullish", nifty_change_tenths |-> 9]),
     portfolio_impact |-> Some([overall_sentiment |-> "positive",
                                top_affected_holdings |-> << <<"T","C","S">> >>])],
    [market_outlook |-> Some([sentiment |-> "bearish", nifty_change_tenths |-> -12]),
     portfolio_impact |-> Some([overall_sentiment |-> "negative",
                                top_affected_holdings |-> <<>>])],
    [market_outlook |-> Some([sentiment |-> "neutral", nifty_change_tenths |-> 0]),
     portfolio_impact |-> Some([overall_sentiment |-> "neutral",
                                top_affected_holdings |-> << <<"S","B","I">> >>])] }

MarketPhases == {"pre", "mid", "post"}

MkInput(phase, news, themes, ctx, max_bullets) ==
    [market_phase |-> phase, news_with_impacts |-> news, refined_themes |-> themes,
     market_outlook |-> ctx.market_outlook, portfolio_impact |-> ctx.portfolio_impact,
     max_bullets |-> max_bullets]

\* the configuration the long news lists are explored with
DefaultThemes == <<ThemeBanking, ThemeRealty>>
DefaultContext ==
    [market_outlook |-> Some([sentiment |-> "bullish", nifty_change_tenths |-> 9]),
     portfolio_impact |-> Some([overall_sentiment |-> "positive",
                                top_affected_holdings |-> << <<"T","C","S">> >>])]

SummaryInputs ==
    { MkInput(p, n, t, c, m) :
        p \in MarketPhases,
        n \in { l \in NewsLists : Len(l) <= ShortNews },
        t \in ThemeLists, c \in Contexts, m \in 1..MaxBulletsChoice }
    \cup
    { MkInput(p, n, DefaultThemes, DefaultContext, MaxBulletsChoice) :
        p \in MarketPhases, n \in { l \in NewsLists : Len(l) > ShortNews } }

----------------------------------------------------------------------------
(* Idle values of the components a specification does not exercise *)

SummaryIdle ==
    /\ sgPc = "idle"
    /\ sgInput = MkInput("pre", <<>>, <<>>, [market_outlook |-> None,
                                             portfolio_impact |-> None], 1)
    /\ sgOutput = None

ChatIdle ==
    /\ chatPc = "idle"
    /\ chatCfg = [max_turns |-> 0, tool_handlers |-> {}]
    /\ turns = 0
    /\ current_response = [candidates |-> <<>>]
    /\ function_calls = <<>>
    /\ fcIdx = 1
    /\ function_responses = <<>>
    /\ sent = [count |-> 0, last |-> None]
    /\ invoked = <<>>
    /\ chatResult = None

CacheIdle ==
    /\ cache = [enabled |-> FALSE, client |-> None]
    /\ backend = {}
    /\ lastSet = {}
    /\ cacheOp = None

OrchIdle ==
    /\ orch = [phase |-> "idle"]
    /\ agent = <<>>
    /\ hist = <<>>

FnIdle ==
    /\ fnPc = "idle"
    /\ fnArgs = <<>>
    /\ fnResult = None

RunIdle ==
    /\ run = [pc |-> "idle"]
    /\ runs = <<>>

HttpIdle ==
    /\ http = [pc |-> "idle"]
    /\ logContext = <<>>

----------------------------------------------------------------------------
(* SummaryGenerationAgent.execute as a one-step program *)

InitSummary ==
    /\ sgPc = "ready"
    /\ sgInput \in SummaryInputs
    /\ sgOutput = None
    /\ ChatIdle /\ CacheIdle /\ OrchIdle /\ RunIdle /\ HttpIdle /\ FnIdle

\* await agent.execute(input_data, context)
SummaryExecute ==
    /\ sgPc = "ready"
    /\ sgOutput' = Some(ExecuteOutput(sgInput))
    /\ sgPc' = "done"
    /\ UNCHANGED <<sgInput, chatVars, cacheVars, orchVars, rtVars, httpVars, fnVars>>

NextSummary == SummaryExecute

SpecSummary == InitSummary /\ [][NextSummary]_vars

----------------------------------------------------------------------------
(* _has_causal_language as a call of its own *)

\* words put into a text: catalog keywords, keywords in another letter case,
\* words that hold the keyword "as" or "led by" inside them, and a word that
\* holds none
CausalWords == {
    <<"a","f","t","e","r">>,
    <<"f","o","l","l","o","w","i","n","g">>,
    <<"a","s">>,
    <<"b","e","c","a","u","s","e">>,
    <<"a","m","i","d">>,
    <<"l","e","d"," ","b","y">>,
    <<"d","r","i","v","e","n"," ","b","y">>,
    <<"A","S">>,
    <<"D","u","e"," ","T","o">>,
    <<"w","a","s">>,
    <<"b","a","s","e","d">>,
    <<"l","e","a","d","e","r">>,
    <<"r","o","s","e">> }
\* what stands before and after the word: nothing, a word set off by a
\* space or by punctuation, or a letter that joins it
CausalLefts == { <<>>, <<"N","I","F","T","Y"," ">>, <<"G","a","i","n","s",","," ">>, <<"m","i","s">> }
CausalRights == { <<>>, <<" ","r","a","t","e"," ","c","u","t",".">>, <<","," ","t","h","e","n"," ","f","e","l","l">>, <<"t">> }
\* the bullet of the acceptance scenario without causal language
PlainBullet ==
    <<"N","I","F","T","Y"," ","r","o","s","e"," ","1",".","2","%","."," ","T","e","c","h"," ","s","t","o","c","k","s"," ","p","e","r","f","o","r","m","e","d"," ","w","e","l","l",".">>
CausalTexts ==
    { l \o w \o r : l \in CausalLefts, w \in CausalWords, r \in CausalRights }
        \cup { PlainBullet, <<>> }

InitCausal ==
    /\ fnPc = "ready"
    /\ \E text \in CausalTexts : fnArgs = [text |-> text]
    /\ fnResult = None
    /\ SummaryIdle /\ ChatIdle /\ CacheIdle /\ OrchIdle /\ RunIdle /\ HttpIdle

\* self._has_causal_language(text)
HasCausalLanguageCall ==
    /\ fnPc = "ready"
    /\ fnPc' = "done"
    /\ fnResult' = Some([returned |-> HasCausalLanguage(fnArgs.text)])
    /\ UNCHANGED <<fnArgs, sgVars, chatVars, cacheVars, orchVars, rtVars, httpVars>>

NextCausal == HasCausalLanguageCall

SpecCausal == InitCausal /\ [][NextCausal]_vars

----------------------------------------------------------------------------
(* VertexAIClient.chat_with_tools *)

\* largest max_turns explored (the default is 10)
MaxTurns == 2
\* most parts in one response of the model
MaxParts == 2

\* tool names the model may call; the last one has no handler
RegisteredTools == {"get_company_fundamentals", "rank_news_by_importance"}
ToolNames == RegisteredTools \cup {"not_a_tool"}

TextPart == [kind |-> "text", name |-> ""]
FunctionCallPart(n) == [kind |-> "function_call", name |-> n]
Parts == {TextPart} \cup { FunctionCallPart(n) : n \in ToolNames }

\* what the model may answer: no candidate, or one candidate with its parts
ModelResponses ==
    { [candidates |-> <<>>] } \cup
    { [candidates |-> << [parts |-> ps] >>] :
        ps \in UNION { [1..n -> Parts] : n \in 0..MaxParts } }

RECURSIVE SelectFunctionCalls(_)
\* the loop collecting part.function_call over content.parts
SelectFunctionCalls(parts) ==
    IF parts = <<>> THEN <<>>
    ELSE IF Head(parts).kind = "function_call"
         THEN <<Head(parts)>> \o SelectFunctionCalls(Tail(parts))
         ELSE SelectFunctionCalls(Tail(parts))

FunctionCallsOf(response) ==
    IF response.candidates = <<>> THEN <<>>
    ELSE SelectFunctionCalls(response.candidates[1].parts)

\* response.text of the SDK: the text of a response made of text parts; for a
\* response holding a function-call part or no part the accessor is outside
\* this repository, and either raises ValueError or yields some text
ResponseTextOutcomes(response) ==
    LET parts == response.candidates[1].parts
    IN  IF parts # <<>> /\ \A i \in 1..Len(parts) : parts[i].kind = "text"
        THEN { [kind |-> "returned", value |-> "text"] }
        ELSE { [kind |-> "raised", value |-> "ValueError"],
               [kind |-> "returned", value |-> "text"] }

FunctionResponse(n, key, value) ==
    [name |-> n, response |-> [key |-> key, value |-> value]]

\* chat_with_tools is called: nothing sent, nothing received
ChatCalled ==
    /\ chatPc = "start"
    /\ chatCfg \in [max_turns : 0..MaxTurns, tool_handlers : {RegisteredTools}]
    /\ turns = 0
    /\ current_response = [candidates |-> <<>>]
    /\ function_calls = <<>>
    /\ fcIdx = 1
    /\ function_responses = <<>>
    /\ sent = [count |-> 0, last |-> None]
    /\ invoked = <<>>
    /\ chatResult = None

InitChat == ChatCalled /\ SummaryIdle /\ CacheIdle /\ OrchIdle /\ RunIdle /\ HttpIdle /\ FnIdle

ChatUnchanged == UNCHANGED <<sgVars, cacheVars, orchVars, rtVars, httpVars, fnVars, chatCfg>>

\* chat = start_chat(); current_response = await to_thread(chat.send_message, prompt)
ChatStart ==
    /\ chatPc = "start"
    /\ sent' = [count |-> 1, last |-> Some([kind |-> "prompt", parts |-> <<>>])]
    /\ \/ /\ current_response' \in ModelResponses
          /\ chatPc' = "loop"
          /\ UNCHANGED chatResult
       \/ /\ chatPc' = "done"
          /\ chatResult' = Some([kind |-> "raised", value |-> "GatewayError"])
          /\ UNCHANGED current_response
    /\ UNCHANGED <<turns, function_calls, fcIdx, function_responses, invoked>>
    /\ ChatUnchanged

\* a loop test that lets one more turn through
TurnsRemainInclusive == turns <= chatCfg.max_turns

\* the loop test `while turns < max_turns`
TurnsRemain == turns < chatCfg.max_turns

\* one pass from `while turns < max_turns` to the first function call:
\* leaves the loop when the turns are used up, when there is no candidate
\* or when the response holds no function call
ChatLoopHead ==
    /\ chatPc = "loop"
    /\ IF TurnsRemain
       THEN /\ turns' = turns + 1
            /\ IF current_response.candidates = <<>>
               THEN /\ chatPc' = "finish"
                    /\ UNCHANGED <<function_calls, function_responses, fcIdx, invoked>>
               ELSE /\ function_calls' = FunctionCallsOf(current_response)
                    /\ IF function_calls' = <<>>
                       THEN /\ chatPc' = "finish"
                            /\ UNCHANGED <<function_responses, fcIdx, invoked>>
                       ELSE /\ chatPc' = "tools"
                            /\ function_responses' = <<>>
                            /\ fcIdx' = 1
                            /\ invoked' = <<>>
       ELSE /\ chatPc' = "finish"
            /\ UNCHANGED <<turns, function_calls, function_responses, fcIdx, invoked>>
    /\ UNCHANGED <<current_response, sent, chatResult>>
    /\ ChatUnchanged

\* after one function call: on to the next one, or to the send
AfterToolCall ==
    /\ fcIdx' = fcIdx + 1
    /\ chatPc' = IF fcIdx + 1 > Len(function_calls) THEN "send" ELSE "tools"
    /\ UNCHANGED <<turns, current_response, function_calls, sent, chatResult>>
    /\ ChatUnchanged

\* the handler of a registered tool returns: {"result": result}
ChatToolReturns ==
    /\ chatPc = "tools"
    /\ function_calls[fcIdx].name \in chatCfg.tool_handlers
    /\ invoked' = Append(invoked, [index |-> fcIdx, name |-> function_calls[fcIdx].name,
                                   outcome |-> "returned"])
    /\ function_responses' = Append(function_responses,
            FunctionResponse(function_calls[fcIdx].name, "result", "handler result"))
    /\ AfterToolCall

\* a handler exception that is not caught: it leaves chat_with_tools
ChatToolRaisesPropagated ==
    /\ chatPc = "tools"
    /\ function_calls[fcIdx].name \in chatCfg.tool_handlers
    /\ invoked' = Append(invoked, [index |-> fcIdx, name |-> function_calls[fcIdx].name,
                                   outcome |-> "raised"])
    /\ chatPc' = "done"
    /\ chatResult' = Some([kind |-> "raised", value |-> "HandlerException"])
    /\ UNCHANGED <<turns, current_response, function_calls, fcIdx, function_responses, sent>>
    /\ ChatUnchanged

\* the handler of a registered tool raises: `except Exception` answers
\* {"error": str(e)} for this call
ChatToolRaises ==
    /\ chatPc = "tools"
    /\ function_calls[fcIdx].name \in chatCfg.tool_handlers
    /\ invoked' = Append(invoked, [index |-> fcIdx, name |-> function_calls[fcIdx].name,
                                   outcome |-> "raised"])
    /\ function_responses' = Append(function_responses,
            FunctionResponse(function_calls[fcIdx].name, "error", "str(e)"))
    /\ AfterToolCall

\* an unknown tool that gets no function response
ChatToolUnknownDropped ==
    /\ chatPc = "tools"
    /\ function_calls[fcIdx].name \notin chatCfg.tool_handlers
    /\ UNCHANGED <<invoked, function_responses>>
    /\ AfterToolCall

\* a lookup tool_handlers[tool_name] without the membership test: KeyError
ChatToolUnknownRaises ==
    /\ chatPc = "tools"
    /\ function_calls[fcIdx].name \notin chatCfg.tool_handlers
    /\ chatPc' = "done"
    /\ chatResult' = Some([kind |-> "raised", value |-> "KeyError"])
    /\ UNCHANGED <<turns, current_response, function_calls, fcIdx, function_responses,
                   sent, invoked>>
    /\ ChatUnchanged

\* no handler under this name: {"error": "Unknown tool: <name>"}, nothing invoked
ChatToolUnknown ==
    /\ chatPc = "tools"
    /\ function_calls[fcIdx].name \notin chatCfg.tool_handlers
    /\ function_responses' = Append(function_responses,
            FunctionResponse(function_calls[fcIdx].name, "error", "Unknown tool"))
    /\ UNCHANGED invoked
    /\ AfterToolCall

\* current_response = await to_thread(chat.send_message, function_responses)
ChatSendResponses ==
    /\ chatPc = "send"
    /\ sent' = [count |-> sent.count + 1,
                last |-> Some([kind |-> "function_responses",
                               parts |-> function_responses])]
    /\ \/ /\ current_response' \in ModelResponses
          /\ chatPc' = "loop"
          /\ UNCHANGED chatResult
       \/ /\ chatPc' = "done"
          /\ chatResult' = Some([kind |-> "raised", value |-> "GatewayError"])
          /\ UNCHANGED current_response
    /\ UNCHANGED <<turns, function_calls, fcIdx, function_responses, invoked>>
    /\ ChatUnchanged

\* after the loop: `return current_response.text` if there is a candidate,
\* else `return ""`
ChatFinish ==
    /\ chatPc = "finish"
    /\ chatPc' = "done"
    /\ IF current_response.candidates # <<>>
       THEN \E o \in ResponseTextOutcomes(current_response) : chatResult' = Some(o)
       ELSE chatResult' = Some([kind |-> "returned", value |-> ""])
    /\ UNCHANGED <<turns, current_response, function_calls, fcIdx, function_responses,
                   sent, invoked>>
    /\ ChatUnchanged

NextChat ==
    \/ ChatStart
    \/ ChatLoopHead
    \/ ChatToolReturns
    \/ ChatToolRaises
    \/ ChatToolUnknown
    \/ ChatSendResponses
    \/ ChatFinish

SpecChat == InitChat /\ [][NextChat]_vars

\* the coroutine is run to its end by the event loop: every awaited call (a
\* model message, a tool handler) comes back, so a step that can be taken is
\* taken
SpecChatFair == SpecChat /\ WF_vars(NextChat)

----------------------------------------------------------------------------
(* VertexAIClient.parse_json_response and generate_content                 *)

\* str.startswith
StartsWith(t, k) == Len(k) <= Len(t) /\ SubSeq(t, 1, Len(k)) = k

\* s[n:] of Python
Drop(s, n) == SubSeq(s, Min(n, Len(s)) + 1, Len(s))

Whitespace == {" ", "\n"}

RECURSIVE LStrip(_)
LStrip(s) == IF s # <<>> /\ Head(s) \in Whitespace THEN LStrip(Tail(s)) ELSE s

RECURSIVE RStrip(_)
RStrip(s) ==
    IF s # <<>> /\ s[Len(s)] \in Whitespace THEN RStrip(SubSeq(s, 1, Len(s) - 1)) ELSE s

\* str.strip()
Strip(s) == RStrip(LStrip(s))

\* the character U+0060, which a string of TLA+ cannot hold
Backtick == "BACKTICK"

FenceJson == <<Backtick,Backtick,Backtick,"j","s","o","n">>
Fence == <<Backtick,Backtick,Backtick>>

\* the fence handling of parse_json_response: the text handed to json.loads
StripFences(response_text) ==
    LET text0 == Strip(response_text)
        text1 == IF StartsWith(text0, FenceJson) THEN Drop(text0, Len(FenceJson)) ELSE text0
        text2 == IF StartsWith(text1, Fence) THEN Drop(text1, Len(Fence)) ELSE text1
        text3 == IF EndsWith(text2, Fence) THEN SubSeq(text2, 1, Len(text2) - Len(Fence))
                 ELSE text2
    IN  Strip(text3)

\* the JSON documents among the texts explored, with what json.loads makes of
\* them; every other explored text is no JSON document
JsonDocuments ==
    << [text |-> <<"{","\"","a","\"",":"," ","1","}">>, value |-> [type |-> "object", fields |-> {"a"}]],
       [text |-> <<"{","\"","b","\"",":"," ","1","}">>, value |-> [type |-> "object", fields |-> {"b"}]],
       [text |-> <<"{","}">>, value |-> [type |-> "object", fields |-> {}]],
       [text |-> <<"[","1","]">>, value |-> [type |-> "array", fields |-> {}]] >>

\* texts that are no JSON document: a word, nothing, a truncated object
NotJsonTexts == { <<"o","o","p","s">>, <<>>, <<"{","\"","a","\"",":"," ","1">> }

\* json.loads(text)
JsonLoadsText(text) ==
    IF \E d \in 1..Len(JsonDocuments) : JsonDocuments[d].text = text
    THEN [ok |-> TRUE,
          value |-> JsonDocuments[CHOOSE d \in 1..Len(JsonDocuments) :
                                     JsonDocuments[d].text = text].value]
    ELSE [ok |-> FALSE, value |-> "JSONDecodeError"]

\* the expected output schemas: a model class with one required field
ExpectedTypes == { [name |-> "OutputA", required |-> {"a"}],
                   [name |-> "OutputB", required |-> {"b"}] }

\* expected_type(**data): needs a mapping, and the required fields in it
Instantiate(expected_type, data) ==
    IF data.type # "object" THEN [kind |-> "raised", value |-> "TypeError"]
    ELSE IF expected_type.required \subseteq data.fields
         THEN [kind |-> "returned", value |-> expected_type.name]
         ELSE [kind |-> "raised", value |-> "ValidationError"]

\* parse_json_response(response_text, expected_type): JSONDecodeError becomes
\* AgentReasoningError, any other exception is raised again as it is
ParseJsonResponse(response_text, expected_type) ==
    LET loaded == JsonLoadsText(StripFences(response_text))
    IN  IF ~loaded.ok THEN [kind |-> "raised", value |-> "AgentReasoningError"]
        ELSE Instantiate(expected_type, loaded.value)

\* how the model wraps its answer
TextPrefixes == { <<>>, <<Backtick,Backtick,Backtick,"j","s","o","n","\n">>, <<Backtick,Backtick,Backtick,"\n">>, <<Backtick,Backtick,Backtick,"j","s","o","n">>, <<" ","\n">>, <<Backtick,Backtick,Backtick,"J","S","O","N","\n">> }
TextSuffixes == { <<>>, <<"\n",Backtick,Backtick,Backtick>>, <<Backtick,Backtick,Backtick>>, <<"\n">> }
TextBodies == { JsonDocuments[d].text : d \in 1..Len(JsonDocuments) } \cup NotJsonTexts
ResponseTexts ==
    { pre \o body \o suf : pre \in TextPrefixes, body \in TextBodies, suf \in TextSuffixes }

InitParse ==
    /\ fnPc = "ready"
    /\ fnArgs \in [response_text : ResponseTexts, expected_type : ExpectedTypes]
    /\ fnResult = None
    /\ SummaryIdle /\ ChatIdle /\ CacheIdle /\ OrchIdle /\ RunIdle /\ HttpIdle

\* client.parse_json_response(response_text, expected_type)
ParseCall ==
    /\ fnPc = "ready"
    /\ fnResult' = Some(ParseJsonResponse(fnArgs.response_text, fnArgs.expected_type))
    /\ fnPc' = "done"
    /\ UNCHANGED <<fnArgs, sgVars, chatVars, cacheVars, orchVars, rtVars, httpVars>>

NextParse == ParseCall

SpecParse == InitParse /\ [][NextParse]_vars

\* generate_content(prompt): the text of the response when it has a candidate,
\* AgentReasoningError when it has none; an exception of the SDK call is
\* logged and raised again
GenerateContent ==
    /\ fnPc = "ready"
    /\ "prompt" \in DOMAIN fnArgs
    /\ fnPc' = "done"
    /\ \/ \E response \in ModelResponses :
             /\ fnArgs' = [prompt |-> fnArgs.prompt, response |-> response]
             /\ IF response.candidates # <<>>
                THEN \E o \in ResponseTextOutcomes(response) : fnResult' = Some(o)
                ELSE fnResult' = Some([kind |-> "raised", value |-> "AgentReasoningError"])
       \/ /\ fnResult' = Some([kind |-> "raised", value |-> "GatewayError"])
          /\ UNCHANGED fnArgs
    /\ UNCHANGED <<sgVars, chatVars, cacheVars, orchVars, rtVars, httpVars>>

\* the two operations that take a response of the model: a call of the client
\* is a single-shot generate_content or a chat_with_tools, and the calls share
\* no state
InitGateway ==
    /\ \/ /\ ChatCalled
          /\ FnIdle
       \/ /\ ChatIdle
          /\ fnPc = "ready"
          /\ fnArgs = [prompt |-> "prompt"]
          /\ fnResult = None
    /\ SummaryIdle /\ CacheIdle /\ OrchIdle /\ RunIdle /\ HttpIdle

NextGateway ==
    \/ GenerateContent
    \/ NextChat

SpecGateway == InitGateway /\ [][NextGateway]_vars

----------------------------------------------------------------------------
(* CacheService *)

\* settings.CACHE_TTL_SECONDS
CACHE_TTL_SECONDS == 300

\* A model_dump() is a sequence of <<field, value>> pairs in insertion order;
\* a value is a string or a datetime, whose str() is its text.
StrValue(t) == [type |-> "str", text |-> t]
DatetimeValue(t) == [type |-> "datetime", text |-> t]

\* field names in the order sort_keys=True gives them
SortedFieldNames == <<"generated_at", "summary", "timestamp", "user_id">>
FieldRank(f) == CHOOSE r \in 1..Len(SortedFieldNames) : SortedFieldNames[r] = f

\* what json.dumps(..., default=str) writes for one value: a JSON string,
\* a datetime passing through str()
JsonValue(v) == [json |-> "string", text |-> v.text]

\* json.dumps(d, default=str): the members in insertion order
JsonDumps(d) == [i \in 1..Len(d) |-> <<d[i][1], JsonValue(d[i][2])>>]

\* json.dumps(d, sort_keys=True, default=str): the members in key order
JsonDumpsSorted(d) ==
    LET ranked == SortedDesc(JsonDumps(d), [i \in 1..Len(d) |-> -FieldRank(d[i][1])])
    IN  ranked

\* json.loads(text): every JSON string comes back as a str
JsonLoads(j) == [i \in 1..Len(j) |-> <<j[i][1], StrValue(j[i][2].text)>>]

\* hashlib.md5(data_json.encode()).hexdigest(): the digest stands for its
\* preimage (distinct texts are taken to have distinct digests)
Md5Hex(data_json) == [md5 |-> data_json]

\* a key that leaves the agent name out
GenerateCacheKeyNoAgent(agent_name, input_data) ==
    <<"a","g","e","n","t",":">> \o <<Md5Hex(JsonDumpsSorted(input_data))>>

\* a key made from the dump in insertion order, without sort_keys
GenerateCacheKeyUnsorted(agent_name, input_data) ==
    <<"a","g","e","n","t",":">> \o agent_name \o <<":">>
        \o <<Md5Hex(JsonDumps(input_data))>>

\* _generate_cache_key(agent_name, input_data): f"agent:{agent_name}:{data_hash}"
GenerateCacheKey(agent_name, input_data) ==
    <<"a","g","e","n","t",":">> \o agent_name \o <<":">>
        \o <<Md5Hex(JsonDumpsSorted(input_data))>>

\* a pattern that matches the keys of every agent
KeyMatchesAnyAgent(agent_name, key) ==
    LET prefix == <<"a","g","e","n","t",":">>
    IN  Len(key) >= Len(prefix) /\ SubSeq(key, 1, Len(prefix)) = prefix

\* the pattern f"agent:{agent_name}:*" matched against a key by redis.keys();
\* the agent names explored hold no glob character
KeyMatchesAgent(agent_name, key) ==
    LET prefix == <<"a","g","e","n","t",":">> \o agent_name \o <<":">>
    IN  Len(key) >= Len(prefix) /\ SubSeq(key, 1, Len(prefix)) = prefix

AgentNames == { <<"i","n","t","e","l">>, <<"s","u","m","m","a","r","y">> }

\* agent inputs: two with the same canonical JSON (another insertion order,
\* the timestamp already a string) and one that differs
CacheInputs == {
    << <<"timestamp", DatetimeValue("t1")>>, <<"user_id", StrValue("u1")>> >>,
    << <<"user_id", StrValue("u1")>>, <<"timestamp", StrValue("t1")>> >>,
    << <<"timestamp", DatetimeValue("t2")>>, <<"user_id", StrValue("u1")>> >> }

CacheOutputs == {
    << <<"summary", StrValue("up")>>, <<"generated_at", DatetimeValue("t1")>> >>,
    << <<"summary", StrValue("down")>> >> }

\* ttl_seconds: omitted, zero, or a value of its own
TtlChoices == { None, Some(0), Some(60) }

\* outcome of the first access of the `redis` property
ConnectOutcomes == {"connected", "ping_failed", "no_client"}

\* a property that logs the failed connection and leaves caching enabled
RedisPropertyStaysEnabled(c, connect) ==
    IF IsNone(c.client) /\ c.enabled
    THEN CASE connect = "connected"   -> [enabled |-> TRUE, client |-> Some("client")]
           [] connect = "ping_failed" -> [enabled |-> TRUE, client |-> Some("client")]
           [] connect = "no_client"   -> [enabled |-> TRUE, client |-> None]
    ELSE c

\* the `redis` property: the state of the service after reading it. A client
\* is created once, while enabled; when from_url raises there is no client,
\* when ping raises the client stays assigned; both disable the service.
RedisProperty(c, connect) ==
    IF IsNone(c.client) /\ c.enabled
    THEN CASE connect = "connected"   -> [enabled |-> TRUE, client |-> Some("client")]
           [] connect = "ping_failed" -> [enabled |-> FALSE, client |-> Some("client")]
           [] connect = "no_client"   -> [enabled |-> FALSE, client |-> None]
    ELSE c

\* a guard that tests the client alone, not the flag
PassesGuardIgnoringEnabled(c, connect) == ~IsNone(RedisProperty(c, connect).client)

\* `if not self._enabled or not self.redis: return ...` lets the call go on
PassesGuard(c, connect) == c.enabled /\ ~IsNone(RedisProperty(c, connect).client)

\* the service after the guard: the property is read only when enabled
AfterGuard(c, connect) == IF c.enabled THEN RedisProperty(c, connect) ELSE c

\* Redis as a set of entries with distinct keys
StoreKeys(store) == { e.key : e \in store }
StoreGet(store, k) == CHOOSE e \in store : e.key = k
StoreDelete(store, ks) == { e \in store : e.key \notin ks }
StorePut(store, k, v, ttl) ==
    StoreDelete(store, {k}) \cup { [key |-> k, value |-> v, ttl |-> ttl] }

\* the history of writes, one per agent name and canonical input
Forget(history, a, canonical) ==
    { h \in history : ~(h.agent_name = a /\ h.canonical = canonical) }
Remember(history, a, canonical, output_data) ==
    Forget(history, a, canonical)
        \cup { [agent_name |-> a, canonical |-> canonical, output |-> output_data] }

CanonicalInput(input_data) == JsonDumpsSorted(input_data)

\* what an earlier run of the service left in Redis: one entry, and the write
\* that made it
EarlierWrite ==
    [agent_name |-> <<"i","n","t","e","l">>,
     input_data |-> << <<"timestamp", DatetimeValue("t1")>>, <<"user_id", StrValue("u1")>> >>,
     output |-> << <<"summary", StrValue("up")>>, <<"generated_at", DatetimeValue("t1")>> >>]
EarlierEntries ==
    StorePut({}, GenerateCacheKey(EarlierWrite.agent_name, EarlierWrite.input_data),
             JsonDumps(EarlierWrite.output), CACHE_TTL_SECONDS)
EarlierHistory ==
    Remember({}, EarlierWrite.agent_name, CanonicalInput(EarlierWrite.input_data),
             EarlierWrite.output)

\* the service after __init__; Redis is empty, or, where caching is switched
\* off by the settings, may hold the entries of an earlier run
InitCache ==
    /\ cache \in [enabled : BOOLEAN, client : {None}]
    /\ \/ /\ backend = {}
          /\ lastSet = {}
       \/ /\ ~cache.enabled
          /\ backend = EarlierEntries
          /\ lastSet = EarlierHistory
    /\ cacheOp = None
    /\ SummaryIdle /\ ChatIdle /\ OrchIdle /\ RunIdle /\ HttpIdle /\ FnIdle

CacheUnchanged == UNCHANGED <<sgVars, chatVars, orchVars, rtVars, httpVars, fnVars>>

\* the outcomes of the lazy connection that the call can meet: the connection
\* is attempted only while the client is unset and caching is enabled
ConnectChoices ==
    IF IsNone(cache.client) /\ cache.enabled THEN ConnectOutcomes ELSE {"connected"}

\* the outcomes of the Redis command: it is issued only past the guard
IoChoices(connect) == IF PassesGuard(cache, connect) THEN BOOLEAN ELSE {TRUE}

\* the outcomes a call can meet in the current state of the service
Meets(connect, ioOk) == connect \in ConnectChoices /\ ioOk \in IoChoices(connect)

\* a store failure that is not caught: the exception leaves the call
StoreFailurePropagates(op) ==
    [raised |-> TRUE, result |-> IF op = "get" THEN None ELSE FALSE]

\* the clauses `except Exception` of get, set and invalidate: a warning is
\* logged, get returns None, set and invalidate return False
StoreFailure(op) ==
    [raised |-> FALSE, result |-> IF op = "get" THEN None ELSE FALSE]

Returned(value) == [raised |-> FALSE, result |-> value]

\* the call on record: how it ended, whether it tried to connect ("none":
\* no attempt), what became of its Redis command ("skipped": the guard
\* returned before any command), and the number of keys DEL removed
OpRecord(op, agent_name, input_data, outcome, connect, ioOk, removed) ==
    [op |-> op, agent_name |-> agent_name, input_data |-> input_data,
     result |-> outcome.result, raised |-> outcome.raised, removed |-> removed,
     connect |-> IF IsNone(cache.client) /\ cache.enabled THEN connect ELSE "none",
     store |-> IF ~PassesGuard(cache, connect) THEN "skipped"
               ELSE IF ioOk THEN "ok" ELSE "failed"]


\* await cache.get(agent_name, input_data); ioOk: the Redis command succeeds
CacheGetEffect(agent_name, input_data, connect, ioOk) ==
    LET key == GenerateCacheKey(agent_name, input_data)
        outcome == IF ~PassesGuard(cache, connect) THEN Returned(None)
                   ELSE IF ~ioOk THEN StoreFailure("get")
                   ELSE IF key \in StoreKeys(backend)
                   THEN Returned(Some(JsonLoads(StoreGet(backend, key).value)))
                   ELSE Returned(None)
    IN  /\ Meets(connect, ioOk)
        /\ cache' = AfterGuard(cache, connect)
        /\ cacheOp' = Some(OpRecord("get", agent_name, Some(input_data), outcome,
                                    connect, ioOk, 0))
        /\ UNCHANGED <<backend, lastSet>>

\* the call made on its own
CacheGet(agent_name, input_data, connect, ioOk) ==
    CacheGetEffect(agent_name, input_data, connect, ioOk) /\ CacheUnchanged

\* await cache.set(agent_name, input_data, output_data, ttl_seconds)
CacheSetEffect(agent_name, input_data, output_data, ttl_seconds, connect, ioOk) ==
    LET key == GenerateCacheKey(agent_name, input_data)
        \* ttl = ttl_seconds or self.settings.CACHE_TTL_SECONDS
        ttl == IF IsNone(ttl_seconds) \/ TheValue(ttl_seconds) = 0
               THEN CACHE_TTL_SECONDS ELSE TheValue(ttl_seconds)
        value == JsonDumps(output_data)
        stored == PassesGuard(cache, connect) /\ ioOk
    IN  /\ Meets(connect, ioOk)
        /\ cache' = AfterGuard(cache, connect)
        /\ backend' = IF stored THEN StorePut(backend, key, value, ttl) ELSE backend
        /\ lastSet' = IF stored
                      THEN Remember(lastSet, agent_name, CanonicalInput(input_data),
                                    output_data)
                      ELSE lastSet
        /\ cacheOp' = Some(OpRecord("set", agent_name, Some(input_data),
                                    IF PassesGuard(cache, connect) /\ ~ioOk
                                    THEN StoreFailure("set") ELSE Returned(stored),
                                    connect, ioOk, 0)
                            @@ [ttl_seconds |-> ttl_seconds])

\* the call made on its own
CacheSet(agent_name, input_data, output_data, ttl_seconds, connect, ioOk) ==
    CacheSetEffect(agent_name, input_data, output_data, ttl_seconds, connect, ioOk) /\ CacheUnchanged

\* await cache.invalidate(agent_name, input_data) with input_data given or omitted
CacheInvalidate(agent_name, input_data, connect, ioOk) ==
    LET deleted == PassesGuard(cache, connect) /\ ioOk
        keys == IF IsNone(input_data)
                THEN { k \in StoreKeys(backend) : KeyMatchesAgent(agent_name, k) }
                ELSE { GenerateCacheKey(agent_name, TheValue(input_data)) }
        remembered == IF IsNone(input_data)
                      THEN { h \in lastSet : h.agent_name # agent_name }
                      ELSE Forget(lastSet, agent_name, CanonicalInput(TheValue(input_data)))
    IN  /\ Meets(connect, ioOk)
        /\ cache' = AfterGuard(cache, connect)
        /\ backend' = IF deleted THEN StoreDelete(backend, keys) ELSE backend
        /\ lastSet' = IF deleted THEN remembered ELSE lastSet
        /\ cacheOp' = Some(OpRecord("invalidate", agent_name, input_data,
                                    IF PassesGuard(cache, connect) /\ ~ioOk
                                    THEN StoreFailure("invalidate") ELSE Returned(deleted),
                                    connect, ioOk,
                                    IF deleted THEN Cardinality(keys \cap StoreKeys(backend))
                                    ELSE 0))
        /\ CacheUnchanged

\* the TTL of an entry runs out: Redis drops the key; no call of the service
\* is involved, so no result of a call is on record afterwards
CacheExpireEffect(agent_name, input_data) ==
    LET key == GenerateCacheKey(agent_name, input_data)
    IN  /\ key \in StoreKeys(backend)
        /\ backend' = StoreDelete(backend, {key})
        /\ lastSet' = Forget(lastSet, agent_name, CanonicalInput(input_data))
        /\ cacheOp' = None
        /\ UNCHANGED cache

\* the expiry seen from the service alone
CacheExpire(agent_name, input_data) ==
    CacheExpireEffect(agent_name, input_data) /\ CacheUnchanged

NextCache ==
    \/ \E a \in AgentNames, i \in CacheInputs, c \in ConnectOutcomes, ok \in BOOLEAN :
            CacheGet(a, i, c, ok)
    \/ \E a \in AgentNames, i \in CacheInputs, o \in CacheOutputs, t \in TtlChoices,
          c \in ConnectOutcomes, ok \in BOOLEAN :
            CacheSet(a, i, o, t, c, ok)
    \/ \E a \in AgentNames, i \in {None} \cup { Some(x) : x \in CacheInputs },
          c \in ConnectOutcomes, ok \in BOOLEAN :
            CacheInvalidate(a, i, c, ok)
    \/ \E a \in AgentNames, i \in CacheInputs : CacheExpire(a, i)

SpecCache == InitCache /\ [][NextCache]_vars

----------------------------------------------------------------------------
(* The agent runtime (spec.md, section 4.4): validate, cache lookup,       *)
(* execution attempts with retries, cache store, typed error               *)

\* retry_attempts=2 in SummaryGenerationAgent.__init__
SummaryRetryAttempts == 2
\* the executions followed in one behaviour
MaxExecutions == 2

\* the typed errors of an agent execution
RetryableErrors == {"timeout", "reasoning_error", "gateway_io_error"}
TypedErrors == RetryableErrors \cup {"validation_error"}
AttemptOutcomes == {"ok"} \cup RetryableErrors

\* what an agent declares, as far as the runtime's control flow reads it
AgentConfigs ==
    [name : AgentNames, retry_attempts : 0..SummaryRetryAttempts, cacheable : BOOLEAN]

\* the output an attempt that succeeds produces for an input: a dump with a
\* datetime in it, so that a cached copy differs from it in type
Produced(agent_name, input_data) ==
    << <<"summary", StrValue("up")>>, <<"generated_at", DatetimeValue("t1")>> >>

\* a retry policy that retries every error
ShouldRetryAny(kind) == kind \in TypedErrors

\* retry on TimeoutError, transient ReasoningError and gateway I/O errors;
\* not on a ValidationError on input
ShouldRetry(kind) == kind \in RetryableErrors

\* an execution that has just been asked for
NewRun(config, input_data, valid, force_refresh) ==
    [pc |-> "validate", config |-> config, input |-> input_data, valid |-> valid,
     force_refresh |-> force_refresh, attempts |-> 0, gateway_calls |-> 0,
     lookup |-> "skipped", stored |-> FALSE, from_cache |-> FALSE,
     last_error |-> None, error |-> None, output |-> None]

\* an error inside an execution: another attempt while the policy and the
\* budget of retry_attempts + 1 tries allow it, else the typed error surfaces
AfterError(r, kind) ==
    IF ShouldRetry(kind) /\ r.attempts < r.config.retry_attempts + 1
    THEN [r EXCEPT !.pc = "attempt", !.last_error = Some(kind)]
    ELSE [r EXCEPT !.pc = "failed", !.last_error = Some(kind), !.error = Some(kind)]

\* a lookup made even when force_refresh is set
WantsLookupAlways(r) == r.config.cacheable

\* cache lookup if cacheable and not force_refresh
WantsLookup(r) == r.config.cacheable /\ ~r.force_refresh

\* after validation: the lookup, or straight to the first attempt
AfterValidation(r) ==
    IF ~r.valid THEN AfterError(r, "validation_error")
    ELSE [r EXCEPT !.pc = IF WantsLookup(r) THEN "lookup" ELSE "attempt"]

RunOver(r) == r.pc \in {"done", "failed"}
Executions == SelectSeq(runs, LAMBDA e : e.pc # "expired")
Ended(r) == IF RunOver(r) THEN Append(runs, r) ELSE runs

\* the service and one agent, before the first request
InitRuntime ==
    /\ \E config \in AgentConfigs : run = [pc |-> "idle", config |-> config]
    /\ runs = <<>>
    /\ cache \in [enabled : BOOLEAN, client : {None}]
    /\ backend = {}
    /\ lastSet = {}
    /\ cacheOp = None
    /\ SummaryIdle /\ ChatIdle /\ OrchIdle /\ FnIdle /\ HttpIdle

RuntimeUnchanged == UNCHANGED <<sgVars, chatVars, orchVars, fnVars, httpVars>>

\* step 1: the orchestrator runs the agent on an input; the input is
\* validated against the input schema
Execute(input_data, valid, force_refresh) ==
    /\ run.pc = "idle" \/ RunOver(run)
    /\ Len(Executions) < MaxExecutions
    /\ run' = AfterValidation(NewRun(run.config, input_data, valid, force_refresh))
    /\ runs' = Ended(run')
    /\ UNCHANGED cacheVars
    /\ RuntimeUnchanged

\* step 2: the cache lookup; a hit ends the execution with the cached output
Lookup(connect, ioOk) ==
    /\ run.pc = "lookup"
    /\ CacheGetEffect(run.config.name, run.input, connect, ioOk)
    /\ LET got == TheValue(cacheOp').result
           missed == IF TheValue(cacheOp').store = "ok" THEN "miss" ELSE "unavailable"
       IN  run' = IF IsNone(got)
                  THEN [run EXCEPT !.pc = "attempt", !.lookup = missed]
                  ELSE [run EXCEPT !.pc = "done", !.lookup = "hit",
                                   !.from_cache = TRUE, !.output = got]
    /\ runs' = Ended(run')
    /\ RuntimeUnchanged

\* step 3: one execution attempt: a call of the Model Gateway that ends in
\* an output or in an error
Attempt(outcome) ==
    /\ run.pc = "attempt"
    /\ LET tried == [run EXCEPT !.attempts = @ + 1, !.gateway_calls = @ + 1]
       IN  run' = IF outcome = "ok"
                  THEN [tried EXCEPT
                           !.output = Some(Produced(run.config.name, run.input)),
                           !.pc = IF run.config.cacheable THEN "store" ELSE "done"]
                  ELSE AfterError(tried, outcome)
    /\ runs' = Ended(run')
    /\ UNCHANGED cacheVars
    /\ RuntimeUnchanged

\* step 4: the cache store after the attempt that succeeded
Store(connect, ioOk) ==
    /\ run.pc = "store"
    /\ CacheSetEffect(run.config.name, run.input, TheValue(run.output), None,
                      connect, ioOk)
    /\ run' = [run EXCEPT !.pc = "done", !.stored = TheValue(cacheOp').result]
    /\ runs' = Ended(run')
    /\ RuntimeUnchanged

\* between two executions the TTL of an entry runs out
Expire(input_data) ==
    /\ RunOver(run)
    /\ Len(Executions) < MaxExecutions
    /\ CacheExpireEffect(run.config.name, input_data)
    /\ runs' = Append(runs, [pc |-> "expired", input |-> input_data])
    /\ UNCHANGED run
    /\ RuntimeUnchanged

NextRuntime ==
    \/ \E i \in CacheInputs, valid \in BOOLEAN, force \in BOOLEAN : Execute(i, valid, force)
    \/ \E c \in ConnectOutcomes, ok \in BOOLEAN : Lookup(c, ok)
    \/ \E outcome \in AttemptOutcomes : Attempt(outcome)
    \/ \E c \in ConnectOutcomes, ok \in BOOLEAN : Store(c, ok)
    \/ \E i \in CacheInputs : Expire(i)

SpecRuntime == InitRuntime /\ [][NextRuntime]_vars

\* inputs of one schema for the key: both insertion orders of the two
\* fields, two users, the timestamp a datetime or already its text
KeyInputs ==
    { << <<"timestamp", ts>>, <<"user_id", StrValue(u)>> >> :
        ts \in {DatetimeValue("t1"), StrValue("t1"), DatetimeValue("t2")}, u \in {"u1", "u2"} }
    \cup
    { << <<"user_id", StrValue(u)>>, <<"timestamp", ts>> >> :
        ts \in {DatetimeValue("t1"), StrValue("t1"), DatetimeValue("t2")}, u \in {"u1", "u2"} }

\* _generate_cache_key is called for two inputs under one agent name
InitKey ==
    /\ fnPc = "ready"
    /\ fnArgs \in [agent_name : AgentNames, x : KeyInputs, y : KeyInputs]
    /\ fnResult = None
    /\ SummaryIdle /\ ChatIdle /\ CacheIdle /\ OrchIdle /\ RunIdle /\ HttpIdle

KeyCall ==
    /\ fnPc = "ready"
    /\ "agent_name" \in DOMAIN fnArgs
    /\ fnResult' = Some([x |-> GenerateCacheKey(fnArgs.agent_name, fnArgs.x),
                         y |-> GenerateCacheKey(fnArgs.agent_name, fnArgs.y)])
    /\ fnPc' = "done"
    /\ UNCHANGED <<fnArgs, sgVars, chatVars, cacheVars, orchVars, rtVars, httpVars>>

NextKey == KeyCall

SpecKey == InitKey /\ [][NextKey]_vars

----------------------------------------------------------------------------
(* constants/themes: the allowed themes and normalize_theme_to_allowed *)

\* MAX_THEMED_NEWS_ITEMS
MAX_THEMED_NEWS_ITEMS == 5

\* ALLOWED_THEMES, in the order of the list
ALLOWED_THEMES == <<
    <<"B","a","n","k","i","n","g"," ","&"," ","F","i","n","a","n","c","i","a","l","s">>,
    <<"I","n","f","o","r","m","a","t","i","o","n"," ","T","e","c","h","n","o","l","o","g","y"," ","(","I","T",")">>,
    <<"O","i","l",","," ","G","a","s"," ","&"," ","E","n","e","r","g","y">>,
    <<"F","M","C","G"," ","&"," ","C","o","n","s","u","m","e","r"," ","S","t","a","p","l","e","s">>,
    <<"C","o","n","s","u","m","e","r"," ","D","i","s","c","r","e","t","i","o","n","a","r","y">>,
    <<"A","u","t","o","m","o","b","i","l","e","s"," ","&"," ","A","u","t","o"," ","A","n","c","i","l","l","a","r","i","e","s">>,
    <<"P","h","a","r","m","a"," ","&"," ","H","e","a","l","t","h","c","a","r","e">>,
    <<"M","e","t","a","l","s"," ","&"," ","M","i","n","i","n","g">>,
    <<"I","n","f","r","a","s","t","r","u","c","t","u","r","e"," ","&"," ","C","a","p","i","t","a","l"," ","G","o","o","d","s">>,
    <<"R","e","a","l"," ","E","s","t","a","t","e">>,
    <<"G","l","o","b","a","l"," ","M","a","r","k","e","t"," ","C","u","e","s">>,
    <<"R","B","I"," ","&"," ","I","n","t","e","r","e","s","t"," ","R","a","t","e","s">>,
    <<"C","o","m","m","o","d","i","t","i","e","s"," ","&"," ","C","r","u","d","e"," ","P","r","i","c","e","s">>,
    <<"F","I","I"," ","&"," ","D","I","I"," ","F","l","o","w","s">>,
    <<"E","V",","," ","G","r","e","e","n"," ","E","n","e","r","g","y"," ","&"," ","N","e","w","-","A","g","e"," ","T","h","e","m","e","s">> >>

\* NEWS_TYPE_TO_THEME as <<key, value>> pairs in insertion order
NEWS_TYPE_TO_THEME == <<
    << <<"e","c","o","n","o","m","y">>,
       <<"R","B","I"," ","&"," ","I","n","t","e","r","e","s","t"," ","R","a","t","e","s">> >>,
    << <<"e","c","o","n","o","m","i","c"," ","&"," ","p","o","l","i","c","y"," ","u","p","d","a","t","e","s">>,
       <<"R","B","I"," ","&"," ","I","n","t","e","r","e","s","t"," ","R","a","t","e","s">> >>,
    << <<"f","o","r","e","i","g","n"," ","m","a","r","k","e","t","s">>,
       <<"G","l","o","b","a","l"," ","M","a","r","k","e","t"," ","C","u","e","s">> >>,
    << <<"g","l","o","b","a","l"," ","m","a","r","k","e","t"," ","u","p","d","a","t","e","s">>,
       <<"G","l","o","b","a","l"," ","M","a","r","k","e","t"," ","C","u","e","s">> >>,
    << <<"o","t","h","e","r"," ","m","a","r","k","e","t","s">>,
       <<"C","o","m","m","o","d","i","t","i","e","s"," ","&"," ","C","r","u","d","e"," ","P","r","i","c","e","s">> >>,
    << <<"c","o","m","m","o","d","i","t","i","e","s"," ","&"," ","f","o","r","e","x">>,
       <<"C","o","m","m","o","d","i","t","i","e","s"," ","&"," ","C","r","u","d","e"," ","P","r","i","c","e","s">> >>,
    << <<"g","e","n","e","r","a","l">>,
       <<"G","l","o","b","a","l"," ","M","a","r","k","e","t"," ","C","u","e","s">> >> >>

\* SECTOR_KEYWORDS_TO_THEME as <<keywords, allowed>> pairs in list order
SECTOR_KEYWORDS_TO_THEME == <<
    << << <<"b","a","n","k","i","n","g">>, <<"b","a","n","k","s">>, <<"n","b","f","c">>, <<"f","i","n","a","n","c","i","a","l","s">>, <<"i","n","s","u","r","e","r">>, <<"l","e","n","d","i","n","g">> >>,
       <<"B","a","n","k","i","n","g"," ","&"," ","F","i","n","a","n","c","i","a","l","s">> >>,
    << << <<"i","t">>, <<"i","n","f","o","r","m","a","t","i","o","n"," ","t","e","c","h","n","o","l","o","g","y">>, <<"s","o","f","t","w","a","r","e">>, <<"t","e","c","h">>, <<"e","x","p","o","r","t">> >>,
       <<"I","n","f","o","r","m","a","t","i","o","n"," ","T","e","c","h","n","o","l","o","g","y"," ","(","I","T",")">> >>,
    << << <<"o","i","l">>, <<"g","a","s">>, <<"e","n","e","r","g","y">>, <<"p","o","w","e","r">>, <<"u","t","i","l","i","t","i","e","s">>, <<"u","p","s","t","r","e","a","m">>, <<"d","o","w","n","s","t","r","e","a","m">> >>,
       <<"O","i","l",","," ","G","a","s"," ","&"," ","E","n","e","r","g","y">> >>,
    << << <<"f","m","c","g">>, <<"c","o","n","s","u","m","e","r"," ","s","t","a","p","l","e","s">>, <<"s","t","a","p","l","e","s">>, <<"d","e","f","e","n","s","i","v","e">> >>,
       <<"F","M","C","G"," ","&"," ","C","o","n","s","u","m","e","r"," ","S","t","a","p","l","e","s">> >>,
    << << <<"c","o","n","s","u","m","e","r"," ","d","i","s","c","r","e","t","i","o","n","a","r","y">>, <<"r","e","t","a","i","l">>, <<"d","u","r","a","b","l","e","s">> >>,
       <<"C","o","n","s","u","m","e","r"," ","D","i","s","c","r","e","t","i","o","n","a","r","y">> >>,
    << << <<"a","u","t","o">>, <<"a","u","t","o","m","o","b","i","l","e">>, <<"o","e","m">>, <<"a","n","c","i","l","l","a","r">> >>,
       <<"A","u","t","o","m","o","b","i","l","e","s"," ","&"," ","A","u","t","o"," ","A","n","c","i","l","l","a","r","i","e","s">> >>,
    << << <<"p","h","a","r","m","a">>, <<"h","e","a","l","t","h","c","a","r","e">>, <<"d","i","a","g","n","o","s","t","i","c">>, <<"h","o","s","p","i","t","a","l">> >>,
       <<"P","h","a","r","m","a"," ","&"," ","H","e","a","l","t","h","c","a","r","e">> >>,
    << << <<"m","e","t","a","l","s">>, <<"m","i","n","i","n","g">>, <<"s","t","e","e","l">>, <<"a","l","u","m","i","n","i","u","m">> >>,
       <<"M","e","t","a","l","s"," ","&"," ","M","i","n","i","n","g">> >>,
    << << <<"i","n","f","r","a","s","t","r","u","c","t","u","r","e">>, <<"c","a","p","i","t","a","l"," ","g","o","o","d","s">>, <<"c","o","n","s","t","r","u","c","t","i","o","n">>, <<"e","n","g","i","n","e","e","r","i","n","g">> >>,
       <<"I","n","f","r","a","s","t","r","u","c","t","u","r","e"," ","&"," ","C","a","p","i","t","a","l"," ","G","o","o","d","s">> >>,
    << << <<"r","e","a","l"," ","e","s","t","a","t","e">>, <<"r","e","a","l","t","y">>, <<"h","o","u","s","i","n","g">> >>,
       <<"R","e","a","l"," ","E","s","t","a","t","e">> >>,
    << << <<"g","l","o","b","a","l">>, <<"u","s"," ">>, <<"e","u","r","o","p","e">>, <<"a","s","i","a">>, <<"o","v","e","r","n","i","g","h","t">>, <<"c","u","e","s">> >>,
       <<"G","l","o","b","a","l"," ","M","a","r","k","e","t"," ","C","u","e","s">> >>,
    << << <<"r","b","i">>, <<"i","n","t","e","r","e","s","t"," ","r","a","t","e">>, <<"m","o","n","e","t","a","r","y">>, <<"l","i","q","u","i","d","i","t","y">>, <<"y","i","e","l","d">> >>,
       <<"R","B","I"," ","&"," ","I","n","t","e","r","e","s","t"," ","R","a","t","e","s">> >>,
    << << <<"c","o","m","m","o","d","i","t">>, <<"c","r","u","d","e">>, <<"a","g","r","i">> >>,
       <<"C","o","m","m","o","d","i","t","i","e","s"," ","&"," ","C","r","u","d","e"," ","P","r","i","c","e","s">> >>,
    << << <<"f","i","i">>, <<"d","i","i">>, <<"f","l","o","w">>, <<"i","n","s","t","i","t","u","t","i","o","n","a","l">> >>,
       <<"F","I","I"," ","&"," ","D","I","I"," ","F","l","o","w","s">> >>,
    << << <<"e","v">>, <<"g","r","e","e","n"," ","e","n","e","r","g","y">>, <<"r","e","n","e","w","a","b","l","e">>, <<"e","n","e","r","g","y"," ","t","r","a","n","s","i","t","i","o","n">>, <<"n","e","w","-","a","g","e">> >>,
       <<"E","V",","," ","G","r","e","e","n"," ","E","n","e","r","g","y"," ","&"," ","N","e","w","-","A","g","e"," ","T","h","e","m","e","s">> >> >>

\* a value that is no str
NoneValue == [type |-> "NoneType", text |-> <<>>]

\* x in a list
InSeq(x, s) == \E i \in 1..Len(s) : s[i] = x

\* `any(kw in text for kw in keywords)`
AnyKeywordIn(keywords, text) == \E k \in 1..Len(keywords) : IsSubstring(keywords[k], text)

\* the loop over SECTOR_KEYWORDS_TO_THEME: the first entry one of whose
\* keywords is in the text, or None
SectorTheme(text) ==
    LET hits == { i \in 1..Len(SECTOR_KEYWORDS_TO_THEME) :
                    AnyKeywordIn(SECTOR_KEYWORDS_TO_THEME[i][1], text) }
    IN  IF hits = {} THEN None
        ELSE Some(SECTOR_KEYWORDS_TO_THEME[CHOOSE i \in hits : \A j \in hits : i <= j][2])

\* `if key in NEWS_TYPE_TO_THEME: return NEWS_TYPE_TO_THEME[key]`
NewsTypeTheme(key) ==
    LET hits == { i \in 1..Len(NEWS_TYPE_TO_THEME) : NEWS_TYPE_TO_THEME[i][1] = key }
    IN  IF hits = {} THEN None ELSE Some(NEWS_TYPE_TO_THEME[CHOOSE i \in hits : TRUE][2])

\* `for k, v in NEWS_TYPE_TO_THEME.items(): if k in base or base in k: return v`
NewsTypeThemeLoose(base) ==
    LET hits == { i \in 1..Len(NEWS_TYPE_TO_THEME) :
                    \/ IsSubstring(NEWS_TYPE_TO_THEME[i][1], base)
                    \/ IsSubstring(base, NEWS_TYPE_TO_THEME[i][1]) }
    IN  IF hits = {} THEN None
        ELSE Some(NEWS_TYPE_TO_THEME[CHOOSE i \in hits : \A j \in hits : i <= j][2])

\* the first of the Optional values that is not None
FirstOf(options) ==
    LET hits == { i \in 1..Len(options) : ~IsNone(options[i]) }
    IN  IF hits = {} THEN None ELSE options[CHOOSE i \in hits : \A j \in hits : i <= j]

Suffixes == << <<" ","n","e","w","s">>, <<" ","u","p","d","a","t","e">> >>

\* one pass of `for suffix in (" news", " update")`: what it returns, or None
\* when it goes on to the next suffix
SuffixFallback(key, suffix) ==
    IF ~EndsWith(key, suffix) THEN None
    ELSE LET base == Strip(SubSeq(key, 1, Len(key) - Len(suffix)))
         IN  FirstOf(<< IF InSeq(base, ALLOWED_THEMES) THEN Some(base) ELSE None,
                        NewsTypeThemeLoose(base),
                        SectorTheme(base) >>)

\* a normalization without the exact match
ExactMatchNever(name) == None

\* an exact match that ignores case and returns the name as given
ExactMatchAnyCase(name) ==
    IF \E i \in 1..Len(ALLOWED_THEMES) : Lower(ALLOWED_THEMES[i]) = Lower(name)
    THEN Some(name) ELSE None

\* `if name in ALLOWED_THEMES: return name`
ExactMatch(name) == IF InSeq(name, ALLOWED_THEMES) THEN Some(name) ELSE None

\* normalize_theme_to_allowed(theme_name): Some(allowed theme) or None
NormalizeThemeToAllowed(theme_name) ==
    IF theme_name.type # "str" \/ theme_name.text = <<>> THEN None
    ELSE LET name == Strip(theme_name.text)
             key == Lower(name)
         IN  FirstOf(<< ExactMatch(name),
                        NewsTypeTheme(key),
                        SectorTheme(key),
                        SuffixFallback(key, Suffixes[1]),
                        SuffixFallback(key, Suffixes[2]) >>)

\* the theme names explored: the catalog names, their lower-case forms, the
\* news types and names outside every table, each as it is, with a suffix,
\* and behind a blank
ThemeWords ==
    { ALLOWED_THEMES[i] : i \in 1..Len(ALLOWED_THEMES) }
    \cup { Lower(ALLOWED_THEMES[i]) : i \in 1..Len(ALLOWED_THEMES) }
    \cup { NEWS_TYPE_TO_THEME[i][1] : i \in 1..Len(NEWS_TYPE_TO_THEME) }
    \cup { <<>>, <<"M","i","s","c">>, <<"F","o","r","e","x">>, <<"S","p","o","r","t","s">>,
           <<"N","e","w","s">>, <<"E","c","o","n","o","m","y">> }
ThemeEndings ==
    { <<>>, <<" ","N","e","w","s">>, <<" ","U","p","d","a","t","e">>,
      <<" ","n","e","w","s">>, <<" ">> }
ThemeNames ==
    { pre \o word \o ending : pre \in { <<>>, <<" ">> }, word \in ThemeWords,
                              ending \in ThemeEndings }
ThemeInputs == { StrValue(n) : n \in ThemeNames } \cup { NoneValue }

\* the result of a call as the argument of the next one
AsArgument(result) == IF IsNone(result) THEN NoneValue ELSE StrValue(TheValue(result))

InitTheme ==
    /\ fnPc = "ready"
    /\ fnArgs \in [theme_name : ThemeInputs]
    /\ fnResult = None
    /\ SummaryIdle /\ ChatIdle /\ CacheIdle /\ OrchIdle /\ RunIdle /\ HttpIdle

\* normalize_theme_to_allowed(theme_name)
NormalizeCall ==
    /\ fnPc = "ready"
    /\ "theme_name" \in DOMAIN fnArgs
    /\ fnResult' = Some([once |-> NormalizeThemeToAllowed(fnArgs.theme_name)])
    /\ fnPc' = "once"
    /\ UNCHANGED <<fnArgs, sgVars, chatVars, cacheVars, orchVars, rtVars, httpVars>>

\* normalize_theme_to_allowed applied to what the first call returned
NormalizeAgain ==
    /\ fnPc = "once"
    /\ fnResult' = Some([once |-> TheValue(fnResult).once,
                         twice |-> NormalizeThemeToAllowed(
                                        AsArgument(TheValue(fnResult).once))])
    /\ fnPc' = "done"
    /\ UNCHANGED <<fnArgs, sgVars, chatVars, cacheVars, orchVars, rtVars, httpVars>>

NextTheme ==
    \/ NormalizeCall
    \/ NormalizeAgain

SpecTheme == InitTheme /\ [][NextTheme]_vars

----------------------------------------------------------------------------
(* The response projection of the themes (spec.md 4.8, Phase C) and the    *)
(* themed_news field of MarketPulseResponse                                *)

\* the longest list of themes explored
MaxThemes == 7

\* theme names as the agents may produce them: a catalog name, a free-form
\* name that normalizes, a name that is rejected
AgentThemeNames ==
    { <<"R","e","a","l"," ","E","s","t","a","t","e">>,
      <<"b","a","n","k","s"," ","N","e","w","s">>,
      <<"S","p","o","r","t","s">> }

AgentThemes ==
    UNION { [1..n -> [theme_name : AgentThemeNames, overall_sentiment : {"mixed"}]] :
                n \in 0..MaxThemes }

\* ThemedNewsItem(theme_name=..., sentiment=..., theme=..., reason=...)
ThemedNewsItem(name, sentiment) ==
    [theme_name |-> name, sentiment |-> sentiment, theme |-> name, reason |-> "reason"]

RECURSIVE ProjectAll(_)
\* every theme projected under the name the agent gave it
ProjectAll(themes) ==
    IF themes = <<>> THEN <<>>
    ELSE <<ThemedNewsItem(Head(themes).theme_name, Head(themes).overall_sentiment)>>
            \o ProjectAll(Tail(themes))

RECURSIVE ProjectAllowed(_)
\* the themes whose name normalizes, under their catalog name, in order
ProjectAllowed(themes) ==
    IF themes = <<>> THEN <<>>
    ELSE LET allowed == NormalizeThemeToAllowed(StrValue(Head(themes).theme_name))
         IN  (IF IsNone(allowed) THEN <<>>
              ELSE <<ThemedNewsItem(TheValue(allowed), Head(themes).overall_sentiment)>>)
                \o ProjectAllowed(Tail(themes))

\* a projection that caps the list but lets every name through
ProjectThemesUnfiltered(themes) == Take(ProjectAll(themes), MAX_THEMED_NEWS_ITEMS)

\* the projection of Phase C: only themes of the allowed catalog, at most 5
ProjectThemes(themes) == Take(ProjectAllowed(themes), MAX_THEMED_NEWS_ITEMS)

\* MarketPulseResponse(themed_news=...): max_length=MAX_THEMED_NEWS_ITEMS is
\* validated when the response is built
BuildResponse(themed_news) ==
    IF Len(themed_news) > MAX_THEMED_NEWS_ITEMS
    THEN [kind |-> "raised", value |-> "ValidationError"]
    ELSE [kind |-> "returned", value |-> [themed_news |-> themed_news]]

InitThemedNews ==
    /\ fnPc = "ready"
    /\ fnArgs \in [themes : AgentThemes]
    /\ fnResult = None
    /\ SummaryIdle /\ ChatIdle /\ CacheIdle /\ OrchIdle /\ RunIdle /\ HttpIdle

\* the themes of the agents are projected and the response is built
ThemedNewsCall ==
    /\ fnPc = "ready"
    /\ "themes" \in DOMAIN fnArgs
    /\ fnResult' = Some(BuildResponse(ProjectThemes(fnArgs.themes)))
    /\ fnPc' = "done"
    /\ UNCHANGED <<fnArgs, sgVars, chatVars, cacheVars, orchVars, rtVars, httpVars>>

NextThemedNews == ThemedNewsCall

SpecThemedNews == InitThemedNews /\ [][NextThemedNews]_vars

----------------------------------------------------------------------------
(* The orchestrator: the three-phase scheduler of spec.md, sections 4.8, 5 *)
(* and 7. An agent task is scheduled, runs, and finishes with an output or *)
(* with a typed error; the orchestrator joins the tasks of a phase.        *)

MarketIntelligence == "market_intelligence"
PortfolioInsight   == "portfolio_insight"
SummaryGeneration  == "summary_generation"

PhaseAAgents == {MarketIntelligence}
PhaseBAgents == {PortfolioInsight, SummaryGeneration}
\* the order in which the results of the fan-out are looked at
PhaseBOrder  == <<PortfolioInsight, SummaryGeneration>>
Agents       == PhaseAAgents \cup PhaseBAgents

\* the typed errors an agent surfaces to the orchestrator
FailureKinds == {"timeout", "reasoning_error", "validation_error"}
InFlight     == {"scheduled", "running"}
Finished     == {"ok"} \cup FailureKinds

Task(status, output) == [status |-> status, output |-> output]
Event(ev, a) == [ev |-> ev, agent |-> a]

\* an intelligence blob that carries an outlook in every phase
IntelligenceBlobWithOutlook(phase) ==
    [kind |-> "intelligence", market_phase |-> phase,
     news |-> <<"n1", "n2">>, themes |-> <<"Banking & Financials">>,
     outlook |-> Some("bullish")]

\* the output of Market Intelligence: the shared intelligence blob
IntelligenceBlob(phase) ==
    [kind |-> "intelligence", market_phase |-> phase,
     news |-> <<"n1", "n2">>, themes |-> <<"Banking & Financials">>,
     outlook |-> IF phase = "mid" THEN None ELSE Some("bullish")]

\* the empty-intelligence placeholder of degraded mode
Placeholder(phase) ==
    [kind |-> "placeholder", market_phase |-> phase,
     news |-> <<>>, themes |-> <<>>, outlook |-> None]

\* what a Phase-B agent produces from the blob it was given, and the default
\* output substituted for an agent that failed
AgentOutput(a, blob) == [agent |-> a, default |-> FALSE, derived_from |-> blob.kind]
DefaultOutput(a)     == [agent |-> a, default |-> TRUE, derived_from |-> "nothing"]

\* a warning names the agent and the error it surfaced
Warning(a, kind) == <<a, kind>>

\* a failure that is recorded as a warning only
RecordFailureWarningOnly(o, a, kind) ==
    [o EXCEPT !.warnings = Append(@, Warning(a, kind))]

\* on any agent failure: record a warning and set degraded_mode = true
RecordFailure(o, a, kind) ==
    [o EXCEPT !.degraded_mode = TRUE, !.warnings = Append(@, Warning(a, kind))]

\* the join of a phase that goes on as soon as one of its tasks has finished
JoinedAny(ag, awaited) == \E a \in awaited : ag[a].status \in Finished

\* the join of a phase: every awaited task has finished
Joined(ag, awaited) == \A a \in awaited : ag[a].status \in Finished

\* a failing task that takes the other tasks in flight down with it
AfterFailureCancellingOthers(ag, a, kind) ==
    [b \in DOMAIN ag |->
        IF b = a \/ ag[b].status \in InFlight THEN Task(IF b = a THEN kind ELSE "timeout", None)
        ELSE ag[b]]

\* the tasks after agent a surfaced the error kind: only a's task changes
AfterFailure(ag, a, kind) == [ag EXCEPT ![a] = Task(kind, None)]

\* a cancellation that leaves the work in flight running
CancelledNothing(ag) == ag

\* cancellation of the work in flight; a cancelled agent returns TimeoutError
Cancelled(ag) ==
    [a \in DOMAIN ag |-> IF ag[a].status \in InFlight THEN Task("timeout", None) ELSE ag[a]]

\* the finish events of the tasks that a cancellation ends, in launch order
CancelEvents(ag) ==
    LET order == <<MarketIntelligence>> \o PhaseBOrder
        inFlight == SelectSeq(order, LAMBDA a : ag[a].status \in InFlight)
    IN  [i \in 1..Len(inFlight) |-> Event("finish", inFlight[i])]

\* the results of the fan-out, looked at in order: a failed agent degrades
RECURSIVE Collect(_, _, _)
Collect(o, ag, order) ==
    IF order = <<>> THEN o
    ELSE LET a == Head(order)
             o1 == IF ag[a].status = "ok" THEN o ELSE RecordFailure(o, a, ag[a].status)
         IN  Collect(o1, ag, Tail(order))

\* Phase C: the Report; a failed agent contributes its default output
Report(o, ag) ==
    [kind |-> "Report",
     market_phase |-> o.market_phase,
     intelligence |-> TheValue(o.intelligence),
     market_outlook |-> TheValue(o.intelligence).outlook,
     outputs |-> [a \in PhaseBAgents |->
                    IF ag[a].status = "ok" THEN TheValue(ag[a].output)
                    ELSE DefaultOutput(a)],
     degraded_mode |-> o.degraded_mode,
     warnings |-> o.warnings]

OrchestrationError == [kind |-> "OrchestrationError", status |-> "unhealthy"]

InitOrch ==
    /\ \E phase \in MarketPhases :
          orch = [phase |-> "start", market_phase |-> phase,
                  degraded_mode |-> FALSE, warnings |-> <<>>,
                  intelligence |-> None, ceiling |-> FALSE, outcome |-> None]
    /\ agent = [a \in Agents |-> Task("pending", None)]
    /\ hist = <<>>
    /\ SummaryIdle /\ ChatIdle /\ CacheIdle /\ FnIdle /\ RunIdle /\ HttpIdle

OrchUnchanged == UNCHANGED <<sgVars, chatVars, cacheVars, fnVars, rtVars, httpVars>>

\* Phase A: run Market Intelligence
PhaseALaunch ==
    /\ orch.phase = "start"
    /\ orch' = [orch EXCEPT !.phase = "A"]
    /\ agent' = [agent EXCEPT ![MarketIntelligence] = Task("scheduled", None)]
    /\ hist' = Append(hist, Event("launch", "phase_a"))
    /\ OrchUnchanged

\* a scheduled task starts to run
AgentStart(a) ==
    /\ agent[a].status = "scheduled"
    /\ agent' = [agent EXCEPT ![a] = Task("running", None)]
    /\ hist' = Append(hist, Event("start", a))
    /\ UNCHANGED orch
    /\ OrchUnchanged

\* a running task completes with its output
AgentSucceeds(a) ==
    /\ agent[a].status = "running"
    /\ LET out == IF a = MarketIntelligence THEN IntelligenceBlob(orch.market_phase)
                  ELSE AgentOutput(a, TheValue(orch.intelligence))
       IN  agent' = [agent EXCEPT ![a] = Task("ok", Some(out))]
    /\ hist' = Append(hist, Event("finish", a))
    /\ UNCHANGED orch
    /\ OrchUnchanged

\* a running task surfaces a typed error (its own deadline included)
AgentFails(a, kind) ==
    /\ agent[a].status = "running"
    /\ agent' = AfterFailure(agent, a, kind)
    /\ hist' = Append(hist, Event("finish", a))
    /\ UNCHANGED orch
    /\ OrchUnchanged

\* a Phase A whose failure is swallowed: the placeholder, but neither
\* degraded mode nor a warning
AfterPhaseASilent(o, mi) ==
    IF mi.status = "ok"
    THEN [o EXCEPT !.intelligence = mi.output, !.phase = "B"]
    ELSE [o EXCEPT !.intelligence = Some(Placeholder(o.market_phase)), !.phase = "B"]

\* the orchestration after Phase A: on success the output of Market
\* Intelligence is the blob; on failure degraded mode, a warning, and the
\* placeholder with the phase of the request
AfterPhaseA(o, mi) ==
    IF mi.status = "ok"
    THEN [o EXCEPT !.intelligence = mi.output, !.phase = "B"]
    ELSE [RecordFailure(o, MarketIntelligence, mi.status)
             EXCEPT !.intelligence = Some(Placeholder(o.market_phase)), !.phase = "B"]

\* end of Phase A: the blob, or degraded mode with the placeholder; then the
\* fan-out launches Portfolio Insight and Summary Generation
PhaseAJoin ==
    /\ orch.phase = "A"
    /\ Joined(agent, PhaseAAgents)
    /\ orch' = AfterPhaseA(orch, agent[MarketIntelligence])
    /\ agent' = [a \in Agents |->
                    IF a \in PhaseBAgents THEN Task("scheduled", None) ELSE agent[a]]
    /\ hist' = Append(hist, Event("launch", "phase_b"))
    /\ OrchUnchanged

\* end of Phase B: the join on both agents, then the assembly starts
PhaseBJoin ==
    /\ orch.phase = "B"
    /\ Joined(agent, PhaseBAgents)
    /\ orch' = [Collect(orch, agent, PhaseBOrder) EXCEPT !.phase = "C"]
    /\ hist' = Append(hist, Event("assemble", "orchestrator"))
    /\ UNCHANGED agent
    /\ OrchUnchanged

\* Phase C: the Report is built and returned
Assemble ==
    /\ orch.phase = "C"
    /\ orch' = [orch EXCEPT !.phase = "returned", !.outcome = Some(Report(orch, agent))]
    /\ hist' = Append(hist, Event("return", "orchestrator"))
    /\ UNCHANGED agent
    /\ OrchUnchanged

\* the hard ceiling is exceeded: the work in flight is cancelled. With the
\* intelligence phase over, a degraded Report follows from what completed;
\* with nothing produced yet the orchestration fails.
HardCeiling ==
    /\ orch.phase \in {"A", "B"}
    /\ ~orch.ceiling
    /\ \E a \in Agents : agent[a].status \in InFlight
    /\ agent' = Cancelled(agent)
    /\ hist' = hist \o CancelEvents(agent)
    /\ orch' = IF orch.phase = "A"
               THEN [orch EXCEPT !.ceiling = TRUE, !.phase = "failed",
                                 !.outcome = Some(OrchestrationError)]
               ELSE [orch EXCEPT !.ceiling = TRUE]
    /\ OrchUnchanged

NextOrch ==
    \/ PhaseALaunch
    \/ \E a \in Agents : AgentStart(a)
    \/ \E a \in Agents : AgentSucceeds(a)
    \/ \E a \in Agents, kind \in FailureKinds : AgentFails(a, kind)
    \/ PhaseAJoin
    \/ PhaseBJoin
    \/ Assemble
    \/ HardCeiling

SpecOrch == InitOrch /\ [][NextOrch]_vars

\* the event loop runs every task that can run, and every agent is bounded
\* by its deadline, so a step that can be taken is taken
SpecOrchFair == SpecOrch /\ WF_vars(NextOrch)

----------------------------------------------------------------------------
(* Properties of SummaryGenerationAgent.execute *)

SgOut == TheValue(sgOutput)
SgDone == sgPc = "done" /\ ~IsNone(sgOutput)
SgBullets == TheValue(SgOut.market_summary_bullets)
SgTrending == TheValue(SgOut.trending_now_section)

\* a text holds, case-insensitively, one of the 13 catalog keywords
ContainsCatalogKeyword(text) ==
    \E k \in 1..13 : IsSubstring(CAUSAL_KEYWORDS[k], Lower(text))

\* C1: in pre and post market every bullet of the output, news-derived or
\* theme-derived, has a text that contains (case-insensitively) a keyword of
\* the 13-entry causal-keyword catalog.
C1_EveryBulletHasCausalKeyword ==
    (SgDone /\ sgInput.market_phase \in {"pre", "post"}) =>
        /\ Len(CAUSAL_KEYWORDS) = 13
        /\ ~IsNone(SgOut.market_summary_bullets)
        /\ \A i \in 1..Len(SgBullets) : ContainsCatalogKeyword(SgBullets[i].text)

\* C1 witness: an output holding a news-derived and a theme-derived bullet,
\* for an input one of whose news items yields no text
C1_Witness ==
    /\ SgDone /\ sgInput.market_phase = "post"
    /\ \E n \in 1..Len(sgInput.news_with_impacts) :
            CreateCausalBullet(sgInput.news_with_impacts[n]) = <<>>
    /\ \E i \in 1..Len(SgBullets) : \E n \in 1..Len(sgInput.news_with_impacts) :
            /\ SgBullets[i].text = CreateCausalBullet(sgInput.news_with_impacts[n])
            /\ SgBullets[i].supporting_news_ids = <<sgInput.news_with_impacts[n].news_id>>
    /\ \E i \in 1..Len(SgBullets) : \E t \in 1..Len(sgInput.refined_themes) :
            /\ SgBullets[i].text = CreateThemeBullet(sgInput.refined_themes[t])
            /\ SgBullets[i].confidence = ThemeBulletConfidence

\* C7: trending_now_section is null exactly in pre and post market,
\* market_summary_bullets is null exactly in mid market, so exactly one of the
\* two sections is non-null.
C7_ExactlyOneSection ==
    SgDone =>
        /\ IsNone(SgOut.trending_now_section) <=> sgInput.market_phase \in {"pre", "post"}
        /\ IsNone(SgOut.market_summary_bullets) <=> sgInput.market_phase = "mid"
        /\ IsNone(SgOut.trending_now_section) # IsNone(SgOut.market_summary_bullets)

\* C7 witness: a mid-market input without news gives an empty, non-null
\* trending section and no bullets
C7_Witness ==
    /\ SgDone /\ sgInput.market_phase = "mid"
    /\ sgInput.news_with_impacts = <<>>
    /\ SgOut.trending_now_section = Some(<<>>)
    /\ IsNone(SgOut.market_summary_bullets)

\* C8: in mid market the trending section has min(5, number of news items)
\* entries, in non-increasing published_at order, all of them input items, and
\* no omitted input item is strictly later than an included one.
C8_TrendingTopFiveNewestFirst ==
    (SgDone /\ sgInput.market_phase = "mid") =>
        LET news == sgInput.news_with_impacts
            included == { SgTrending[i].id : i \in 1..Len(SgTrending) }
        IN  /\ Len(SgTrending) = Min(5, Len(news))
            /\ Cardinality(included) = Len(SgTrending)
            /\ \A i \in 1..Len(SgTrending) :
                    \E n \in 1..Len(news) : news[n].news_item = SgTrending[i]
            /\ \A i \in 1..(Len(SgTrending) - 1) :
                    SgTrending[i].published_at >= SgTrending[i + 1].published_at
            /\ \A n \in 1..Len(news) :
                    news[n].news_item.id \notin included =>
                        \A i \in 1..Len(SgTrending) :
                            news[n].news_item.published_at <= SgTrending[i].published_at

\* C8 witness: six news items given oldest first, of which one is left out
C8_Witness ==
    /\ SgDone /\ sgInput.market_phase = "mid"
    /\ Len(sgInput.news_with_impacts) = 6
    /\ sgInput.news_with_impacts[1].news_item.published_at = 1
    /\ sgInput.news_with_impacts[6].news_item.published_at = 3
    /\ Len(SgTrending) = 5
    /\ SgTrending[1].published_at = 3 /\ SgTrending[5].published_at = 1

\* C15: in pre and post market the returned market_summary_bullets are in
\* non-increasing order of confidence, also where theme-derived bullets are
\* appended after news-derived ones.
C15_BulletsByDescendingConfidence ==
    (SgDone /\ sgInput.market_phase \in {"pre", "post"}) =>
        \A i \in 1..(Len(SgBullets) - 1) :
            SgBullets[i].confidence >= SgBullets[i + 1].confidence

\* the news-derived bullets alone: those with the confidence of a news item
\* and its id as only supporting id
NewsDerived(bullet) ==
    \E n \in 1..Len(sgInput.news_with_impacts) :
        /\ bullet.supporting_news_ids = <<sgInput.news_with_impacts[n].news_id>>
        /\ bullet.confidence = sgInput.news_with_impacts[n].impact_confidence
        /\ bullet.text = CreateCausalBullet(sgInput.news_with_impacts[n])

\* the order of C15 among the news-derived bullets
NewsBulletsByDescendingConfidence ==
    (SgDone /\ sgInput.market_phase \in {"pre", "post"}) =>
        \A i \in 1..(Len(SgBullets) - 1) :
            (NewsDerived(SgBullets[i]) /\ NewsDerived(SgBullets[i + 1])) =>
                SgBullets[i].confidence >= SgBullets[i + 1].confidence

\* C16: in pre and post market the number of returned bullets, news-derived
\* and theme-derived together, is at most input.max_bullets.
C16_AtMostMaxBullets ==
    (SgDone /\ sgInput.market_phase \in {"pre", "post"}) =>
        Len(SgBullets) <= sgInput.max_bullets

\* C16 witness: the bound is met by a news-derived and a theme-derived bullet
\* together while a further theme was left that could have given a bullet
C16_Witness ==
    /\ SgDone /\ sgInput.market_phase = "pre"
    /\ Len(SgBullets) = sgInput.max_bullets
    /\ sgInput.max_bullets = 2
    /\ NewsDerived(SgBullets[1])
    /\ SgBullets[2].confidence = ThemeBulletConfidence
    /\ SgBullets[2].text = CreateThemeBullet(sgInput.refined_themes[1])
    /\ Len(sgInput.refined_themes) = 2
    /\ \A t \in 1..2 : \A n \in 1..Len(sgInput.news_with_impacts) :
            sgInput.news_with_impacts[n].news_id \notin
                { sgInput.refined_themes[t].news_items[k] :
                    k \in 1..Len(sgInput.refined_themes[t].news_items) }
    /\ HasCausalLanguage(CreateThemeBullet(sgInput.refined_themes[2]))

\* the sentences of a text: its full stops that end the text or are followed
\* by a space (the point of a decimal is neither)
SentenceCount(text) ==
    Cardinality({ i \in 1..Len(text) :
                    text[i] = "." /\ (i = Len(text) \/ text[i+1] = " ") })
DefaultSummaryApplies(input) ==
    GenerateExecutiveSummary(input) = JoinParts(<<>>)

DefaultSummaryReturned ==
    /\ SgDone
    /\ IsNone(sgInput.market_outlook)
    /\ IsNone(sgInput.portfolio_impact)
    /\ DefaultSummaryApplies(sgInput)
    /\ SgOut.key_takeaways = <<>>

\* one sentence only: the outlook alone
OneSentenceSummary == SgDone /\ SentenceCount(SgOut.executive_summary) = 1

\* the news items the first loop looks at: sorted_news[:5]
ConsideredNews ==
    Take(SortedDesc(sgInput.news_with_impacts,
                    [i \in 1..Len(sgInput.news_with_impacts) |->
                        sgInput.news_with_impacts[i].impact_confidence]),
         TopNewsConsidered)
Discarded(nwi) ==
    CreateCausalBullet(nwi) = <<>> \/ ~HasCausalLanguage(CreateCausalBullet(nwi))
SomeNewsDiscarded == \E n \in 1..Len(ConsideredNews) : Discarded(ConsideredNews[n])

\* a theme has itself yielded a bullet: a news-derived bullet of the result
\* comes from a news item whose theme it is
ThemeYieldedBullet(t) ==
    \E i \in 1..Len(SgBullets) :
        /\ NewsDerived(SgBullets[i])
        /\ FirstThemeOf(SgBullets[i].supporting_news_ids[1], sgInput.refined_themes) = t
ThemeBulletAt(t, i) ==
    SgBullets[i] = MakeThemeBullet(sgInput.refined_themes[t],
                                   CreateThemeBullet(sgInput.refined_themes[t]))

\* C31: in pre and post market, when a news-derived bullet was discarded and
\* the result is shorter than max_bullets, every refined theme that has not
\* itself yielded a bullet has its theme-derived bullet in the result, the
\* theme of the discarded news item included.
C31_DiscardedNewsReplacedByThemeBullets ==
    ( SgDone /\ sgInput.market_phase \in {"pre", "post"}
        /\ SomeNewsDiscarded /\ Len(SgBullets) < sgInput.max_bullets ) =>
        \A t \in 1..Len(sgInput.refined_themes) :
            ThemeYieldedBullet(t) \/ \E i \in 1..Len(SgBullets) : ThemeBulletAt(t, i)

\* what does hold: a discarded news item that belongs to no theme leaves
\* every theme eligible, and the theme bullets come in theme order
DiscardedOutsideThemesReplaced ==
    ( SgDone /\ sgInput.market_phase \in {"pre", "post"}
        /\ Len(SgBullets) < sgInput.max_bullets
        /\ \A n \in 1..Len(ConsideredNews) :
              Discarded(ConsideredNews[n]) =>
                 FirstThemeOf(ConsideredNews[n].news_id, sgInput.refined_themes) = NoTheme ) =>
        /\ \A t \in 1..Len(sgInput.refined_themes) :
              ThemeYieldedBullet(t) \/ \E i \in 1..Len(SgBullets) : ThemeBulletAt(t, i)
        /\ \A t, u \in 1..Len(sgInput.refined_themes), i, j \in 1..Len(SgBullets) :
              (t < u /\ ThemeBulletAt(t, i) /\ ThemeBulletAt(u, j)) => i < j

\* a discarded item outside every theme, replaced by a theme bullet
DiscardedReplaced ==
    /\ SgDone /\ sgInput.market_phase = "pre"
    /\ \E n \in 1..Len(ConsideredNews) :
          /\ Discarded(ConsideredNews[n])
          /\ FirstThemeOf(ConsideredNews[n].news_id, sgInput.refined_themes) = NoTheme
    /\ sgInput.refined_themes # <<>>
    /\ \E i \in 1..Len(SgBullets) : ThemeBulletAt(1, i)

CausalDone == fnPc = "done" /\ ~IsNone(fnResult)
Letters == { LowerChars[i] : i \in 1..Len(LowerChars) }
IsLetter(c) == LowerChar(c) \in Letters

\* the keyword stands in the text as a whole token: at a place where no
\* letter comes right before it or right after it
TokenAt(k, text, i) ==
    /\ i + Len(k) - 1 <= Len(text)
    /\ SubSeq(text, i, i + Len(k) - 1) = k
    /\ i = 1 \/ ~IsLetter(text[i - 1])
    /\ i + Len(k) - 1 = Len(text) \/ ~IsLetter(text[i + Len(k)])
HasKeywordToken(text) ==
    \E k \in 1..Len(CAUSAL_KEYWORDS), i \in 1..Len(text) :
        TokenAt(CAUSAL_KEYWORDS[k], Lower(text), i)

\* C32: the causal-language check accepts a text exactly when a catalog
\* keyword stands in it as a whole token, whatever the letter case; a
\* keyword that occurs only inside a longer word does not count.
C32_AcceptsIffKeywordToken ==
    CausalDone =>
        ( TheValue(fnResult).returned <=> HasKeywordToken(fnArgs.text) )

\* what does hold: a text with a keyword token is accepted, whatever the
\* letter case, and the plain bullet of the acceptance scenario is rejected
KeywordTokenAccepted ==
    CausalDone =>
        /\ HasKeywordToken(fnArgs.text) => TheValue(fnResult).returned
        /\ fnArgs.text = PlainBullet => ~TheValue(fnResult).returned

\* a text whose only keyword is the "as" inside "was" is accepted
InnerKeywordAccepted ==
    /\ CausalDone
    /\ fnArgs.text = <<"w","a","s">>
    /\ TheValue(fnResult).returned
    /\ ~HasKeywordToken(fnArgs.text)
PlainBulletRejected ==
    CausalDone /\ fnArgs.text = PlainBullet /\ ~TheValue(fnResult).returned

\* a dict as a value: the set of its items, whatever the insertion order
DictItems(d) == { d[i] : i \in 1..Len(d) }
ReverseSeq(q) == [i \in 1..Len(q) |-> q[Len(q) + 1 - i]]

\* the input with every sector_impacts map built in the opposite key order
WithSectorImpactsReversed(input) ==
    [input EXCEPT !.news_with_impacts =
        [i \in 1..Len(@) |-> [@[i] EXCEPT !.sector_impacts = ReverseSeq(@)]]]

\* two inputs equal as values: the same fields, the sector_impacts maps with
\* the same items
EqualAsValues(x, y) ==
    /\ Len(x.news_with_impacts) = Len(y.news_with_impacts)
    /\ \A i \in 1..Len(x.news_with_impacts) :
          /\ DictItems(x.news_with_impacts[i].sector_impacts)
                = DictItems(y.news_with_impacts[i].sector_impacts)
          /\ [x.news_with_impacts[i] EXCEPT !.sector_impacts = <<>>]
                = [y.news_with_impacts[i] EXCEPT !.sector_impacts = <<>>]
    /\ [x EXCEPT !.news_with_impacts = <<>>] = [y EXCEPT !.news_with_impacts = <<>>]

NoGatewayOrToolCall == sent.count = 0 /\ invoked = <<>> /\ chatPc = "idle"

\* C35: execute is deterministic: an execution on an input that is equal as
\* a value, its sector_impacts maps built in another key order, gives the
\* same output, and no call of the Model Gateway or of a tool handler is made.
C35_ExecuteDeterministic ==
    SgDone =>
        /\ EqualAsValues(sgInput, WithSectorImpactsReversed(sgInput))
        /\ ExecuteOutput(WithSectorImpactsReversed(sgInput)) = SgOut
        /\ NoGatewayOrToolCall

\* what does hold: the same input, with the same key order, gives the same
\* output without a call; the inputs equal as values are indeed compared
SameInputSameOutput ==
    SgDone =>
        /\ ExecuteOutput(sgInput) = SgOut
        /\ NoGatewayOrToolCall
        /\ EqualAsValues(sgInput, WithSectorImpactsReversed(sgInput))

\* two equal inputs whose bullets name different sectors
SectorOrderChangesBullet ==
    /\ SgDone /\ sgInput.market_phase = "post"
    /\ Len(sgInput.news_with_impacts) = 1
    /\ WithSectorImpactsReversed(sgInput) # sgInput
    /\ Len(SgBullets) = 1
    /\ Len(TheValue(ExecuteOutput(WithSectorImpactsReversed(sgInput)).market_summary_bullets)) = 1
    /\ SgBullets[1].text #
          TheValue(ExecuteOutput(WithSectorImpactsReversed(sgInput)).market_summary_bullets)[1].text

----------------------------------------------------------------------------
(* Properties of VertexAIClient.chat_with_tools *)

ChatDone == chatPc = "done" /\ ~IsNone(chatResult)

\* the function calls of the current turn that have a handler, up to call n
RECURSIVE RegisteredCallsUpTo(_)
RegisteredCallsUpTo(n) ==
    IF n = 0 THEN <<>>
    ELSE IF function_calls[n].name \in chatCfg.tool_handlers
         THEN Append(RegisteredCallsUpTo(n - 1), [index |-> n, name |-> function_calls[n].name])
         ELSE RegisteredCallsUpTo(n - 1)

\* the loop ended because max_turns turns were used while the last response
\* still asks for tools (every earlier response did, or the loop had ended)
ToolLoopExhausted ==
    /\ ChatDone
    /\ chatCfg.max_turns >= 1
    /\ turns = chatCfg.max_turns
    /\ sent.count = chatCfg.max_turns + 1
    /\ FunctionCallsOf(current_response) # <<>>
    /\ TheValue(chatResult).value # "GatewayError"

\* C2: when the model keeps answering with function-call parts until
\* max_turns turns are used, chat_with_tools fails with a ReasoningError
\* ("tool loop exceeded") and returns no text.
C2_ExhaustedLoopRaisesReasoningError ==
    ToolLoopExhausted =>
        TheValue(chatResult) = [kind |-> "raised", value |-> "AgentReasoningError"]

\* the calls handled so far in the current turn: every call up to n
HandledCalls == IF chatPc = "tools" THEN fcIdx - 1 ELSE Len(function_calls)

\* C9: within one turn the handlers are invoked one at a time in the order of
\* the model's function-call parts, each call gets exactly one function
\* response under the model-supplied name, and the responses of the turn go
\* back in that order as one single follow-up message.
C9_ToolCallsInOrderOneBatch ==
    /\ chatPc \in {"tools", "send"} =>
          /\ Len(function_responses) = HandledCalls
          /\ \A i \in 1..HandledCalls :
                function_responses[i].name = function_calls[i].name
          /\ [i \in 1..Len(invoked) |-> [index |-> invoked[i].index, name |-> invoked[i].name]]
                = RegisteredCallsUpTo(HandledCalls)
          /\ sent.count = turns
    /\ (chatPc = "loop" /\ turns >= 1) =>
          /\ sent.count = turns + 1
          /\ TheValue(sent.last).kind = "function_responses"
          /\ Len(TheValue(sent.last).parts) = Len(function_calls)
          /\ \A i \in 1..Len(function_calls) :
                TheValue(sent.last).parts[i].name = function_calls[i].name
          /\ Len(invoked) = Len(RegisteredCallsUpTo(Len(function_calls)))

\* C9 witness: a turn of two calls to different tools whose two responses
\* were sent back, in the order of the calls, as one message
C9_Witness ==
    /\ chatPc = "loop" /\ turns = 1 /\ sent.count = 2
    /\ function_calls = << FunctionCallPart("rank_news_by_importance"),
                           FunctionCallPart("get_company_fundamentals") >>
    /\ Len(invoked) = 2
    /\ invoked[1].name = "rank_news_by_importance"
    /\ TheValue(sent.last).parts[1].name = "rank_news_by_importance"
    /\ TheValue(sent.last).parts[2].name = "get_company_fundamentals"

\* C10: a handler exception becomes the {error: message} function response of
\* that call; the later calls of the turn are still handled, the batch is
\* still sent, and chat_with_tools never raises the handler's exception.
C10_HandlerFailureIsCaptured ==
    /\ \A i \in 1..Len(invoked) :
          (invoked[i].outcome = "raised" /\ chatPc \in {"tools", "send", "loop"}) =>
              /\ invoked[i].index <= Len(function_responses)
              /\ function_responses[invoked[i].index] =
                    FunctionResponse(invoked[i].name, "error", "str(e)")
    /\ (\E i \in 1..Len(invoked) : invoked[i].outcome = "raised") =>
          /\ chatPc \in {"tools", "send"} => Len(function_responses) = HandledCalls
          /\ (chatPc = "loop" /\ turns >= 1) =>
                /\ TheValue(sent.last).parts = function_responses
                /\ Len(function_responses) = Len(function_calls)
    /\ ChatDone => TheValue(chatResult).value # "HandlerException"

\* C10 witness: the first handler of a turn raised, the second call was still
\* invoked, and both responses were sent to the model
C10_Witness ==
    /\ chatPc = "loop" /\ turns = 1
    /\ Len(function_calls) = 2 /\ Len(invoked) = 2
    /\ invoked[1].outcome = "raised" /\ invoked[2].outcome = "returned"
    /\ TheValue(sent.last).parts[1].response.key = "error"
    /\ TheValue(sent.last).parts[2].response.key = "result"

\* the calls of the current turn, among the first n, that name no handler
UnknownCallsUpTo(n) ==
    { i \in 1..n : function_calls[i].name \notin chatCfg.tool_handlers }

\* C11: a function call naming a tool without a registered handler invokes
\* no handler and raises nothing: its function response is {error: ...} under
\* the model-supplied name, the calls after it in the turn are still handled,
\* and the batch of the turn, that response included, is sent.
C11_UnknownToolAnsweredWithError ==
    /\ chatPc \in {"tools", "send"} =>
          /\ \A i \in UnknownCallsUpTo(HandledCalls) :
                /\ i <= Len(function_responses)
                /\ function_responses[i] =
                      FunctionResponse(function_calls[i].name, "error", "Unknown tool")
                /\ \A k \in 1..Len(invoked) : invoked[k].index # i
          /\ \A k \in 1..Len(invoked) :
                invoked[k].name \in chatCfg.tool_handlers
    /\ (chatPc = "loop" /\ turns >= 1) =>
          \A i \in UnknownCallsUpTo(Len(function_calls)) :
              /\ Len(TheValue(sent.last).parts) = Len(function_calls)
              /\ TheValue(sent.last).parts[i] =
                    FunctionResponse(function_calls[i].name, "error", "Unknown tool")
    /\ ChatDone => TheValue(chatResult).value # "KeyError"

\* C11 witness: a turn whose first call names an unknown tool and whose
\* second call names a registered one: only the second handler was invoked
\* and both responses were sent
C11_Witness ==
    /\ chatPc = "loop" /\ turns = 1 /\ sent.count = 2
    /\ function_calls = << FunctionCallPart("not_a_tool"),
                           FunctionCallPart("get_company_fundamentals") >>
    /\ Len(invoked) = 1
    /\ invoked[1].index = 2 /\ invoked[1].outcome = "returned"
    /\ TheValue(sent.last).parts[1] = FunctionResponse("not_a_tool", "error", "Unknown tool")
    /\ TheValue(sent.last).parts[2].response.key = "result"

\* C12: whatever the model answers, chat_with_tools uses at most max_turns
\* turns, sends at most max_turns tool-response messages after the prompt
\* (max_turns + 1 messages in all), and comes to an end.
C12_TerminatesWithinMaxTurns ==
    /\ [](/\ turns <= chatCfg.max_turns
          /\ sent.count <= chatCfg.max_turns + 1
          /\ chatPc \in {"tools", "send"} => sent.count <= chatCfg.max_turns)
    /\ <>(chatPc = "done")

\* C12 witness: the model asked for tools in every answer; the call ended
\* after the prompt and MaxTurns tool-response messages
C12_Witness ==
    /\ ChatDone
    /\ chatCfg.max_turns = MaxTurns
    /\ turns = MaxTurns
    /\ sent.count = MaxTurns + 1
    /\ FunctionCallsOf(current_response) # <<>>
    /\ TheValue(sent.last).kind = "function_responses"

----------------------------------------------------------------------------
(* Properties of parse_json_response *)

ParseDone == fnPc = "done" /\ ~IsNone(fnResult) /\ "response_text" \in DOMAIN fnArgs
ParseLoaded == JsonLoadsText(StripFences(fnArgs.response_text))

\* C13: parse_json_response fails with a ReasoningError when the
\* fence-stripped text is no valid JSON and when the parsed JSON does not
\* satisfy the expected schema, and no other error type leaves it.
C13_ParseFailsWithReasoningError ==
    ParseDone =>
        LET outcome == TheValue(fnResult)
            schemaOk == /\ ParseLoaded.ok
                        /\ ParseLoaded.value.type = "object"
                        /\ fnArgs.expected_type.required \subseteq ParseLoaded.value.fields
        IN  /\ ~ParseLoaded.ok => outcome = [kind |-> "raised", value |-> "AgentReasoningError"]
            /\ ~schemaOk => outcome = [kind |-> "raised", value |-> "AgentReasoningError"]
            /\ outcome.kind = "raised" => outcome.value = "AgentReasoningError"

RaisedReasoningError == Some([kind |-> "raised", value |-> "AgentReasoningError"])

\* C14: whenever the model returns a response with an empty candidate set,
\* the operation that received it fails with a ReasoningError and returns no
\* text, in generate_content and in every turn of chat_with_tools.
C14_EmptyCandidatesFailWithReasoningError ==
    /\ (fnPc = "done" /\ "response" \in DOMAIN fnArgs /\ fnArgs.response.candidates = <<>>)
            => fnResult = RaisedReasoningError
    /\ (chatPc = "done" /\ turns >= 1 /\ current_response.candidates = <<>>
            /\ chatResult # Some([kind |-> "raised", value |-> "GatewayError"]))
            => chatResult = RaisedReasoningError

\* the half of C14 about generate_content alone
GenerateEmptyCandidatesFail ==
    (fnPc = "done" /\ "response" \in DOMAIN fnArgs /\ fnArgs.response.candidates = <<>>)
        => fnResult = RaisedReasoningError

----------------------------------------------------------------------------
(* Properties of CacheService *)

LastGet == TheValue(cacheOp)
GetHit == ~IsNone(cacheOp) /\ LastGet.op = "get" /\ ~IsNone(LastGet.result)

\* C6: on an enabled, healthy cache a get that hits returns the (JSON-decoded)
\* value written by the most recent set for the same agent name and the same
\* canonical input that was neither invalidated nor expired since; never a
\* value stored under another agent name or another canonical input.
C6_HitReturnsLastSetOfSameKey ==
    GetHit =>
        LET written == { h \in lastSet :
                            /\ h.agent_name = LastGet.agent_name
                            /\ h.canonical = CanonicalInput(TheValue(LastGet.input_data)) }
        IN  /\ Cardinality(written) = 1
            /\ \A h \in written : TheValue(LastGet.result) = JsonLoads(JsonDumps(h.output))

\* C6 witness: a hit for one agent while the other agent holds another value
\* for the same input; the hit was asked with an input that differs from the
\* one written (another field order, the timestamp a string) but has the same
\* canonical JSON
C6_Witness ==
    /\ GetHit
    /\ LastGet.agent_name = <<"i","n","t","e","l">>
    /\ TheValue(LastGet.input_data) =
          << <<"user_id", StrValue("u1")>>, <<"timestamp", StrValue("t1")>> >>
    /\ \E h \in lastSet :
          /\ h.agent_name = <<"s","u","m","m","a","r","y">>
          /\ h.canonical = CanonicalInput(TheValue(LastGet.input_data))
          /\ JsonLoads(JsonDumps(h.output)) # TheValue(LastGet.result)
    /\ TheValue(LastGet.result) =
          << <<"summary", StrValue("up")>>, <<"generated_at", StrValue("t1")>> >>

LastOp == TheValue(cacheOp)
Called == ~IsNone(cacheOp)

\* what a caller takes for "nothing cached" or "not done": None from get,
\* False from set and invalidate, and no exception
ReportsMiss(r) ==
    /\ ~r.raised
    /\ r.op = "get" => IsNone(r.result)
    /\ r.op # "get" => r.result = FALSE

C19_DisabledTouchesNothing ==
    [][ (~cache.enabled /\ ~IsNone(cacheOp')) =>
            /\ ReportsMiss(TheValue(cacheOp'))
            /\ TheValue(cacheOp').store = "skipped"
            /\ backend' = backend ]_vars

\* C19 witness: caching is off, Redis holds an entry of an earlier run, and a
\* get of that very entry came back as a miss without a command
C19_Witness ==
    /\ ~cache.enabled /\ backend = EarlierEntries
    /\ Called /\ LastOp.op = "get" /\ LastOp.store = "skipped"
    /\ LastOp.agent_name = EarlierWrite.agent_name
    /\ LastOp.input_data = Some(EarlierWrite.input_data)
    /\ IsNone(LastOp.result)

ConnectFailures == {"ping_failed", "no_client"}

\* C33: the call whose connection attempt fails disables the service; in
\* every later call the flag stays false, no connection is attempted again,
\* get reports a miss and set and invalidate report False.
C33_FailedConnectionDisablesForGood ==
    [][ /\ ( ~IsNone(cacheOp') /\ cache.enabled
                /\ TheValue(cacheOp').connect \in ConnectFailures ) =>
              ~cache'.enabled
        /\ ~cache.enabled =>
              /\ cache' = cache
              /\ ~IsNone(cacheOp') =>
                    /\ ReportsMiss(TheValue(cacheOp'))
                    /\ TheValue(cacheOp').connect = "none"
                    /\ TheValue(cacheOp').store = "skipped" ]_vars

\* C33 witness: the ping of the first call failed, which left a client but
\* no caching; a later set made no attempt to connect and reported False
C33_Witness ==
    /\ ~cache.enabled /\ cache.client = Some("client")
    /\ Called /\ LastOp.op = "set"
    /\ LastOp.connect = "none" /\ LastOp.store = "skipped"
    /\ LastOp.result = FALSE

\* the call that meets the failed ping goes on with the client it was left
\* with, and its command may still succeed
FailedPingCallStillStores ==
    /\ Called /\ LastOp.op = "set" /\ LastOp.connect = "ping_failed"
    /\ LastOp.result = TRUE /\ ~cache.enabled /\ backend # {}

\* a set that stored its entry, and the entry
SetStored == Called /\ LastOp.op = "set" /\ LastOp.result = TRUE
EntryOfLastSet ==
    StoreGet(backend, GenerateCacheKey(LastOp.agent_name, TheValue(LastOp.input_data)))

\* C34: a set that stores its entry gives it exactly the ttl_seconds that
\* was supplied, whatever the value, and the configured default TTL only
\* when ttl_seconds was omitted.
C34_SetUsesGivenTtl ==
    SetStored =>
        EntryOfLastSet.ttl = IF IsNone(LastOp.ttl_seconds) THEN CACHE_TTL_SECONDS
                             ELSE TheValue(LastOp.ttl_seconds)

\* what does hold: a ttl_seconds other than 0 is the TTL of the entry, and
\* an omitted one gives the default
SetUsesNonZeroTtl ==
    SetStored =>
        /\ IsNone(LastOp.ttl_seconds) => EntryOfLastSet.ttl = CACHE_TTL_SECONDS
        /\ (~IsNone(LastOp.ttl_seconds) /\ TheValue(LastOp.ttl_seconds) # 0) =>
              EntryOfLastSet.ttl = TheValue(LastOp.ttl_seconds)
        /\ EntryOfLastSet.value = JsonDumps(
              (CHOOSE h \in lastSet :
                  /\ h.agent_name = LastOp.agent_name
                  /\ h.canonical = CanonicalInput(TheValue(LastOp.input_data))).output)

\* ttl_seconds = 0 was supplied and the entry lives for the default TTL
ZeroTtlStoredWithDefault ==
    /\ SetStored /\ LastOp.ttl_seconds = Some(0)
    /\ EntryOfLastSet.ttl = CACHE_TTL_SECONDS
ExplicitTtlStored ==
    SetStored /\ LastOp.ttl_seconds = Some(60) /\ EntryOfLastSet.ttl = 60

\* the key of a write on record
KeyOfWrite(h) ==
    <<"a","g","e","n","t",":">> \o h.agent_name \o <<":">> \o <<Md5Hex(h.canonical)>>

\* the keys the writes on record gave to one agent
KeysWrittenBy(agent_name) == { KeyOfWrite(h) : h \in { w \in lastSet : w.agent_name = agent_name } }

\* C20: a successful invalidate(agent_name, input) removes the entry keyed by
\* (agent_name, input) and nothing else; a successful invalidate(agent_name)
\* removes every entry written for that agent and leaves the entries of the
\* other agents as they were.
C20_InvalidateRemovesExactly ==
    [][ (~IsNone(cacheOp') /\ TheValue(cacheOp').op = "invalidate"
            /\ TheValue(cacheOp').result = TRUE) =>
            LET r == TheValue(cacheOp')
                gone == IF IsNone(r.input_data)
                        THEN KeysWrittenBy(r.agent_name)
                        ELSE { GenerateCacheKey(r.agent_name, TheValue(r.input_data)) }
            IN  /\ backend' = { e \in backend : e.key \notin gone }
                /\ \A e \in backend :
                        (\E a \in AgentNames \ {r.agent_name} : e.key \in KeysWrittenBy(a))
                            => e \in backend' ]_vars

\* C20 witness: after invalidate(agent_name) without input nothing of that
\* agent is left of the two entries it had, and the entry of the other agent
\* is still there
C20_Witness ==
    /\ Called /\ LastOp.op = "invalidate" /\ IsNone(LastOp.input_data)
    /\ LastOp.result = TRUE /\ LastOp.removed = 2
    /\ KeysWrittenBy(LastOp.agent_name) = {}
    /\ \E a \in AgentNames \ {LastOp.agent_name} :
            KeysWrittenBy(a) # {} /\ KeysWrittenBy(a) = StoreKeys(backend)

\* the entries of Redis are those of the writes on record
StoreIsWhatWasWritten ==
    StoreKeys(backend) = UNION { KeysWrittenBy(a) : a \in AgentNames }

KeyDone == fnPc = "done" /\ "agent_name" \in DOMAIN fnArgs /\ ~IsNone(fnResult)

\* the members of a dump as a set: what the input holds, whatever the order
Members(d) == { d[i] : i \in 1..Len(d) }

\* C17: for a fixed agent name two inputs get the same cache key exactly when
\* their canonical JSON (sorted keys, values through str) is the same; so the
\* key does not depend on the insertion order of the fields.
C17_SameKeyIffSameCanonicalJson ==
    KeyDone =>
        /\ (TheValue(fnResult).x = TheValue(fnResult).y)
                <=> (JsonDumpsSorted(fnArgs.x) = JsonDumpsSorted(fnArgs.y))
        /\ Members(fnArgs.x) = Members(fnArgs.y)
                => TheValue(fnResult).x = TheValue(fnResult).y

\* C17 witness: two inputs that differ in insertion order and in the type of
\* the timestamp get one key
C17_Witness ==
    /\ KeyDone
    /\ fnArgs.x[1][1] = "timestamp" /\ fnArgs.y[1][1] = "user_id"
    /\ fnArgs.x[1][2] = DatetimeValue("t1") /\ fnArgs.y[2][2] = StrValue("t1")
    /\ TheValue(fnResult).x = TheValue(fnResult).y

----------------------------------------------------------------------------
(* Properties of normalize_theme_to_allowed *)

Normalized == fnPc \in {"once", "done"} /\ "theme_name" \in DOMAIN fnArgs
NormalizedTwice == fnPc = "done" /\ "theme_name" \in DOMAIN fnArgs
AllowedThemeSet == { ALLOWED_THEMES[i] : i \in 1..Len(ALLOWED_THEMES) }

\* C21: normalization is idempotent: normalizing a non-null result gives that
\* result again, and a rejected name stays rejected.
C21_NormalizeIdempotent ==
    NormalizedTwice => TheValue(fnResult).twice = TheValue(fnResult).once

\* C21 witness: a name that is not its own normal form (lower case, with a
\* suffix) is mapped to a theme, and the second application returns it again
C21_Witness ==
    /\ NormalizedTwice
    /\ fnArgs.theme_name = StrValue(<<"r","e","a","l"," ","e","s","t","a","t","e",
                                      " ","U","p","d","a","t","e">>)
    /\ TheValue(fnResult).once = Some(<<"R","e","a","l"," ","E","s","t","a","t","e">>)
    /\ TheValue(fnResult).twice = TheValue(fnResult).once

\* C22: for every input the result is null or exactly one of the 15 entries
\* of the catalog, never a lower-cased or other string.
C22_ResultIsNullOrAllowed ==
    /\ Cardinality(AllowedThemeSet) = 15
    /\ Normalized =>
          \/ IsNone(TheValue(fnResult).once)
          \/ TheValue(TheValue(fnResult).once) \in AllowedThemeSet

\* C22 witness: a name that reaches the suffix fallback (no exact match, no
\* news type, no sector keyword in it) and comes back as a catalog entry
C22_Witness ==
    /\ Normalized
    /\ fnArgs.theme_name = StrValue(<<"F","o","r","e","x"," ","N","e","w","s">>)
    /\ SectorTheme(Lower(fnArgs.theme_name.text)) = None
    /\ TheValue(fnResult).once =
          Some(<<"C","o","m","m","o","d","i","t","i","e","s"," ","&"," ",
                 "C","r","u","d","e"," ","P","r","i","c","e","s">>)

\* C24: an allowed catalog name followed by " News" normalizes to that
\* catalog name.
C24_CatalogNameWithNewsSuffix ==
    Normalized =>
        \A a \in AllowedThemeSet :
            fnArgs.theme_name = StrValue(a \o <<" ","N","e","w","s">>)
                => TheValue(fnResult).once = Some(a)

\* the name is a letter-case variant of the catalog name
CaseVariantOf(name, allowed) ==
    name.type = "str" /\ Lower(name.text) = Lower(allowed)

\* C36: normalization does not depend on letter case: a letter-case variant
\* of an allowed catalog name normalizes to that catalog name.
C36_CaseVariantNormalizesToCatalogName ==
    Normalized =>
        \A a \in AllowedThemeSet :
            CaseVariantOf(fnArgs.theme_name, a) => TheValue(fnResult).once = Some(a)

\* what does hold: a letter-case variant of a catalog name is never
\* rejected, and twelve of the fifteen names come back as themselves
CaseVariantNormalizesToSomeTheme ==
    Normalized =>
        \A a \in AllowedThemeSet :
            CaseVariantOf(fnArgs.theme_name, a) =>
                /\ ~IsNone(TheValue(fnResult).once)
                /\ a \notin { ALLOWED_THEMES[9], ALLOWED_THEMES[13], ALLOWED_THEMES[15] }
                      => TheValue(fnResult).once = Some(a)

\* a lower-case catalog name that comes back as itself, in catalog spelling
LowerCaseNameRestored ==
    /\ Normalized
    /\ fnArgs.theme_name = StrValue(Lower(ALLOWED_THEMES[1]))
    /\ fnArgs.theme_name.text # ALLOWED_THEMES[1]
    /\ TheValue(fnResult).once = Some(ALLOWED_THEMES[1])

ResponseBuilt ==
    /\ fnPc = "done" /\ "themes" \in DOMAIN fnArgs
    /\ TheValue(fnResult).kind = "returned"
ThemedNews == TheValue(fnResult).value.themed_news

\* C23: in every response that is built, themed_news has at most 5 entries
\* and every theme_name is in the allowed catalog, whatever names the
\* agents produced.
C23_ThemedNewsAllowedAndCapped ==
    ResponseBuilt =>
        /\ Len(ThemedNews) <= 5
        /\ \A i \in 1..Len(ThemedNews) : ThemedNews[i].theme_name \in AllowedThemeSet

\* C23 witness: seven themes, among them a rejected name and a free-form
\* name, six of which normalize; the response holds five entries, the
\* free-form name under the name it normalizes to
C23_Witness ==
    /\ ResponseBuilt
    /\ Len(fnArgs.themes) = 7
    /\ fnArgs.themes[1].theme_name = <<"b","a","n","k","s"," ","N","e","w","s">>
    /\ fnArgs.themes[2].theme_name = <<"S","p","o","r","t","s">>
    /\ \A i \in 3..7 : fnArgs.themes[i].theme_name = <<"R","e","a","l"," ","E","s","t","a","t","e">>
    /\ Len(ProjectAllowed(fnArgs.themes)) = 6
    /\ Len(ThemedNews) = 5
    /\ ThemedNews[1].theme_name = ALLOWED_THEMES[1]

----------------------------------------------------------------------------
(* Properties of the orchestration *)

OrchReturned == orch.phase = "returned" /\ ~IsNone(orch.outcome)
OrchReport == TheValue(orch.outcome)
PhaseBFailed(a) == a \in PhaseBAgents /\ agent[a].status \in FailureKinds

\* the positions of an event in the history
EventAt(ev, a) == { i \in 1..Len(hist) : hist[i] = Event(ev, a) }
HappensBefore(before, after) ==
    \A i \in after : \E j \in before : j < i

\* C3: whenever a Phase-B agent has failed (timeout, reasoning error or
\* validation error) the orchestration has not failed, and the Report that is
\* returned has degraded_mode = true and a non-empty warning naming that agent.
C3_PhaseBFailureDegrades ==
    \A a \in PhaseBAgents :
        PhaseBFailed(a) =>
            /\ orch.phase # "failed"
            /\ OrchReturned =>
                  /\ OrchReport.kind = "Report"
                  /\ OrchReport.degraded_mode = TRUE
                  /\ \E i \in 1..Len(OrchReport.warnings) :
                        /\ OrchReport.warnings[i] # <<>>
                        /\ OrchReport.warnings[i][1] = a

\* C3 witness: the intelligence phase succeeded, Portfolio Insight timed out,
\* Summary Generation completed, and the Report came back degraded with the
\* single warning of Portfolio Insight
C3_Witness ==
    /\ OrchReturned
    /\ agent[MarketIntelligence].status = "ok"
    /\ agent[PortfolioInsight].status = "timeout"
    /\ agent[SummaryGeneration].status = "ok"
    /\ ~orch.ceiling
    /\ OrchReport.degraded_mode = TRUE
    /\ OrchReport.warnings = << Warning(PortfolioInsight, "timeout") >>

\* C4: the two Phase-B agents fail independently: a step in which one of them
\* surfaces an error (the hard ceiling apart) leaves the task of the other as
\* it was, an agent that is running can always complete, and the output of an
\* agent that succeeded is the one the Report carries.
C4_PhaseBAgentsFailIndependently ==
    /\ [][\A a \in PhaseBAgents :
            (/\ agent[a].status \in InFlight
             /\ agent'[a].status \in FailureKinds
             /\ orch'.ceiling = orch.ceiling)
            => \A b \in PhaseBAgents \ {a} : agent'[b] = agent[b]]_vars
    /\ [](\A b \in PhaseBAgents :
            /\ agent[b].status = "running" => ENABLED AgentSucceeds(b)
            /\ (OrchReturned /\ agent[b].status = "ok") =>
                  /\ ~OrchReport.outputs[b].default
                  /\ OrchReport.outputs[b] = TheValue(agent[b].output))

\* C4 witness: Portfolio Insight failed first, Summary Generation finished
\* after that failure with its output, and the Report carries that output
C4_Witness ==
    /\ OrchReturned
    /\ agent[PortfolioInsight].status = "reasoning_error"
    /\ agent[SummaryGeneration].status = "ok"
    /\ \E i \in EventAt("finish", PortfolioInsight) :
          \E j \in EventAt("finish", SummaryGeneration) : i < j
    /\ OrchReport.outputs[SummaryGeneration] =
          AgentOutput(SummaryGeneration, OrchReport.intelligence)
    /\ OrchReport.outputs[PortfolioInsight] = DefaultOutput(PortfolioInsight)

\* C5: in the history of every orchestration, each start of a Phase-B agent
\* comes after Market Intelligence has finished, and the start of the assembly
\* comes after both Phase-B agents have finished.
C5_PhaseOrder ==
    /\ \A b \in PhaseBAgents :
          HappensBefore(EventAt("finish", MarketIntelligence), EventAt("start", b))
    /\ \A b \in PhaseBAgents :
          HappensBefore(EventAt("finish", b), EventAt("assemble", "orchestrator"))
    /\ \A b \in PhaseBAgents :
          agent[b].status # "pending" => agent[MarketIntelligence].status \in Finished
    /\ orch.phase \in {"C", "returned"} =>
          \A b \in PhaseBAgents : agent[b].status \in Finished

\* C5 witness: Market Intelligence failed, both Phase-B agents ran to an end
\* in the opposite order of their launch, and the assembly has started
C5_Witness ==
    /\ orch.phase = "C"
    /\ agent[MarketIntelligence].status = "timeout"
    /\ EventAt("assemble", "orchestrator") # {}
    /\ \E i \in EventAt("finish", SummaryGeneration) :
          \E j \in EventAt("finish", PortfolioInsight) : i < j
    /\ agent[PortfolioInsight].status = "validation_error"

PhaseAFailed == agent[MarketIntelligence].status \in FailureKinds
EmptyIntelligence(o) ==
    /\ ~IsNone(o.intelligence)
    /\ TheValue(o.intelligence).news = <<>>
    /\ TheValue(o.intelligence).themes = <<>>
    /\ IsNone(TheValue(o.intelligence).outlook)
    /\ TheValue(o.intelligence).market_phase = o.market_phase

\* C25: once Market Intelligence has failed in Phase A the orchestration
\* never fails; past Phase A it is in degraded mode on the empty placeholder
\* (no news, no themes, no outlook, the phase of the request) with a warning
\* naming Market Intelligence, both Phase-B agents are launched and work on
\* the placeholder, and the Report that is returned is degraded.
C25_PhaseAFailureDegrades ==
    /\ [](( orch.phase = "A" /\ PhaseAFailed ) => [](orch.phase # "failed"))
    /\ [](( PhaseAFailed /\ orch.phase \in {"B", "C", "returned"} ) =>
            /\ orch.degraded_mode
            /\ EmptyIntelligence(orch)
            /\ \E i \in 1..Len(orch.warnings) : orch.warnings[i][1] = MarketIntelligence
            /\ \A b \in PhaseBAgents :
                  /\ agent[b].status # "pending"
                  /\ agent[b].status = "ok" =>
                        TheValue(agent[b].output).derived_from = "placeholder"
            /\ OrchReturned =>
                  /\ OrchReport.kind = "Report"
                  /\ OrchReport.degraded_mode = TRUE
                  /\ OrchReport.intelligence = Placeholder(orch.market_phase))

\* C25 witness: Market Intelligence surfaced a reasoning error, both Phase-B
\* agents completed on the placeholder, and the degraded Report came back
\* with that one warning
C25_Witness ==
    /\ OrchReturned
    /\ agent[MarketIntelligence].status = "reasoning_error"
    /\ \A b \in PhaseBAgents :
          /\ agent[b].status = "ok"
          /\ OrchReport.outputs[b] = AgentOutput(b, Placeholder(orch.market_phase))
    /\ OrchReport.degraded_mode = TRUE
    /\ OrchReport.warnings = << Warning(MarketIntelligence, "reasoning_error") >>
    /\ orch.market_phase = "post"

OrchOver == orch.phase \in {"returned", "failed"}
NoTaskRunning == \A a \in Agents : agent[a].status \notin InFlight
CompletedOutputs(r) ==
    \A b \in PhaseBAgents :
        r.outputs[b] = IF agent[b].status = "ok" THEN TheValue(agent[b].output)
                       ELSE DefaultOutput(b)

\* C28: every orchestration eventually returns, with a Report, or with
\* OrchestrationError when nothing was produced; after the hard ceiling the
\* Report is degraded and holds the outputs that completed; and when the
\* orchestration has returned no agent task is in flight.
C28_OrchestrationReturns ==
    /\ <>OrchOver
    /\ [](OrchOver =>
            /\ NoTaskRunning
            /\ ~IsNone(orch.outcome)
            /\ orch.phase = "returned" =>
                  OrchReport.kind = "Report" /\ CompletedOutputs(OrchReport)
            /\ orch.phase = "failed" =>
                  /\ OrchReport = OrchestrationError
                  /\ IsNone(orch.intelligence)
                  /\ \A a \in Agents : agent[a].status # "ok"
            /\ (orch.ceiling /\ orch.phase = "returned") =>
                  /\ OrchReport.degraded_mode = TRUE
                  /\ \E a \in PhaseBAgents : agent[a].status = "timeout")

\* C28 witness: the ceiling fell in Phase B after Portfolio Insight had
\* completed; Summary Generation was cancelled, and the degraded Report
\* holds the output of Portfolio Insight and the default for the other
C28_Witness ==
    /\ OrchReturned
    /\ orch.ceiling
    /\ agent[PortfolioInsight].status = "ok"
    /\ agent[SummaryGeneration].status = "timeout"
    /\ OrchReport.degraded_mode = TRUE
    /\ OrchReport.outputs[PortfolioInsight] = TheValue(agent[PortfolioInsight].output)
    /\ OrchReport.outputs[SummaryGeneration] = DefaultOutput(SummaryGeneration)
    /\ OrchReport.warnings = << Warning(SummaryGeneration, "timeout") >>

\* the outputs of Market Intelligence that exist
IntelligenceOutputs ==
    IF agent[MarketIntelligence].status = "ok"
    THEN { TheValue(agent[MarketIntelligence].output) } ELSE {}
NullIffMid(outlook, phase) == IsNone(outlook) <=> phase = "mid"

OutlookReported ==
    /\ OrchReturned
    /\ agent[MarketIntelligence].status = "ok"
    /\ OrchReport.market_phase = "post"
    /\ OrchReport.market_outlook = Some("bullish")

----------------------------------------------------------------------------
(* Properties of the agent runtime *)

\* the execution under way and the executions that ended
Running == IF run.pc = "idle" \/ RunOver(run) THEN {} ELSE {run}
AllRuns == Running \cup { Executions[i] : i \in 1..Len(Executions) }
Budget(r) == r.config.retry_attempts + 1

\* C26: an execution makes at most retry_attempts + 1 attempts, each one call
\* of the Model Gateway; a further attempt follows only a timeout, a
\* reasoning error or a gateway I/O error; an invalid input ends the
\* execution with a ValidationError and no call of the Model Gateway; and an
\* execution fails only with a typed error, after the last attempt allowed.
C26_BoundedRetries ==
    \A r \in AllRuns :
        /\ r.attempts <= Budget(r)
        /\ r.gateway_calls = r.attempts
        /\ (r.pc = "attempt" /\ r.attempts >= 1) =>
              /\ r.attempts < Budget(r)
              /\ r.last_error \in { Some(k) : k \in RetryableErrors }
        /\ ~r.valid =>
              /\ r.pc = "failed"
              /\ r.error = Some("validation_error")
              /\ r.gateway_calls = 0
        /\ r.pc = "failed" =>
              /\ r.error \in { Some(k) : k \in TypedErrors }
              /\ r.valid => /\ r.error \in { Some(k) : k \in RetryableErrors }
                            /\ r.attempts = Budget(r)
        /\ (r.pc = "done" /\ ~r.from_cache) => r.attempts \in 1..Budget(r)

\* C26 witness: with retry_attempts = 2 an execution failed with a timeout
\* after three attempts, and the next one, on an invalid input, failed with
\* a ValidationError without any call
C26_Witness ==
    /\ Len(Executions) = 2
    /\ Executions[1].config.retry_attempts = SummaryRetryAttempts
    /\ Executions[1].pc = "failed"
    /\ Executions[1].attempts = 3
    /\ Executions[1].error = Some("timeout")
    /\ Executions[2].pc = "failed"
    /\ ~Executions[2].valid
    /\ Executions[2].error = Some("validation_error")
    /\ Executions[2].gateway_calls = 0

\* the entry written by the execution runs[i] for its input has not expired
\* before runs[j]
InsideTtl(i, j) ==
    \A k \in (i+1)..(j-1) :
        runs[k].pc = "expired" =>
            CanonicalInput(runs[k].input) # CanonicalInput(runs[i].input)

\* runs[j] repeats the request of runs[i], which succeeded and was cached
RepeatsCached(i, j) ==
    /\ i < j
    /\ runs[i].pc = "done" /\ runs[i].stored
    /\ runs[j].pc \in {"done", "failed"}
    /\ runs[j].valid
    /\ CanonicalInput(runs[j].input) = CanonicalInput(runs[i].input)
    /\ InsideTtl(i, j)

\* C27: when an execution of an agent succeeded and its output was cached, a
\* later execution of the same agent on an identical input inside the TTL
\* with force_refresh = false, the cache answering, returns the cached output
\* and makes no call of the Model Gateway; with force_refresh = true no
\* execution looks the cache up or is served from it.
C27_SecondRequestServedFromCache ==
    /\ \A i, j \in 1..Len(runs) :
          ( RepeatsCached(i, j) /\ ~runs[j].force_refresh
                /\ runs[j].lookup # "unavailable" ) =>
             /\ runs[j].pc = "done"
             /\ runs[j].lookup = "hit"
             /\ runs[j].from_cache
             /\ runs[j].gateway_calls = 0
             /\ runs[j].output = Some(JsonLoads(JsonDumps(TheValue(runs[i].output))))
    /\ \A r \in AllRuns :
          r.force_refresh =>
             /\ r.lookup = "skipped"
             /\ ~r.from_cache
             /\ (r.pc = "done") => r.gateway_calls >= 1

\* C27 witness: the first execution called the Model Gateway and stored its
\* output; the second, on the same request written in another field order
\* and inside the TTL, was served from the cache without a call
C27_Witness ==
    /\ Len(runs) = 2
    /\ RepeatsCached(1, 2)
    /\ runs[1].gateway_calls = 1
    /\ runs[1].input # runs[2].input
    /\ ~runs[2].force_refresh
    /\ runs[2].from_cache
    /\ runs[2].gateway_calls = 0
    /\ runs[2].output # runs[1].output

\* the same request again with force_refresh = true inside the TTL: the
\* lookup is skipped and the Model Gateway is called
ForcedRefreshCallsGateway ==
    /\ Len(runs) = 2
    /\ RepeatsCached(1, 2)
    /\ runs[2].force_refresh
    /\ runs[2].lookup = "skipped"
    /\ runs[2].gateway_calls = 1

(***************************************************************************)
(* The middlewares (RequestIDMiddleware, ErrorHandlerMiddleware) and the   *)
(* logging context (bind_request_context, bind_agent_context,              *)
(* clear_context).  A request goes inwards through the dispatch methods of *)
(* the stack up to their `await call_next(request)`, the downstream        *)
(* handler runs, and the outcome (a response or a raised exception) goes   *)
(* outwards through what follows each `await`.                             *)
(***************************************************************************)

MaxRequests == 2

\* the application installs both middlewares; which one is the outer one
\* is decided where the application is assembled, so both orders are kept
Stacks ==
    { <<"request_id", "error_handler">>, <<"error_handler", "request_id">> }

\* request.headers.get(...): None when the header is absent
RequestIdHeaders == { None, Some(""), Some("client-1") }
UserIdHeaders    == { None, Some("user-1") }

\* the values str(uuid.uuid4()) can yield
FreshIds == { "uuid-a", "uuid-b", "uuid-c" }

\* an exception as the error handler reads it: str(e), and for a
\* MarketPulseError its code, message and details
MarketPulseErrors ==
    { [type |-> "MarketPulseError", text |-> "agent timed out after 30s",
       code |-> Some(c), message |-> Some("agent timed out after 30s"),
       details |-> Some(d)] :
         c \in { "AGENT_TIMEOUT", "INTERNAL_ERROR" },
         d \in { <<>>, [agent |-> "news_analysis_agent"] } }

OtherExceptions ==
    { [type |-> t, text |-> "redis://cache-internal:6379 refused",
       code |-> None, message |-> None, details |-> None] :
         t \in { "ConnectionError", "KeyError" } }

HandlerResponses ==
    { [status_code |-> 200, headers |-> h, content |-> [status |-> "ok"]] :
         h \in { <<>>, [X_Request_ID |-> "handler-own"] } }

RespondedWith(response) ==
    [kind |-> "response", response |-> Some(response), exc |-> None]
RaisedWith(e) ==
    [kind |-> "raised", response |-> None, exc |-> Some(e)]

HandlerOutcomes ==
    { RespondedWith(r) : r \in HandlerResponses }
        \cup { RaisedWith(e) : e \in MarketPulseErrors \cup OtherExceptions }

\* what bind_agent_context is called with: a name and keyword arguments
BoundAgentNames  == { "news_analysis_agent" }
AgentKwargs == { <<>>, [ticker |-> "TCS"], [request_id |-> "agent-run-7"] }

\* structlog.contextvars.bind_contextvars(**kw): kw wins over what is bound
BindContextvars(ctx, kw) == kw @@ ctx

\* structlog.contextvars.clear_contextvars()
ClearContextvars(ctx) == <<>>

BindRequestContextNoClear(ctx, request_id, user_id) ==
    BindContextvars(ctx, [request_id |-> request_id, user_id |-> user_id])

\* bind_request_context(request_id, user_id)
BindRequestContext(ctx, request_id, user_id) ==
    BindContextvars(ClearContextvars(ctx),
                    [request_id |-> request_id, user_id |-> user_id])

\* bind_agent_context(agent_name, **kwargs)
BindAgentContext(ctx, agent_name, kwargs) ==
    BindContextvars(ctx, [agent |-> agent_name] @@ kwargs)

RequestIdForUnlessAbsent(header, fresh) ==
    IF IsNone(header) THEN fresh ELSE TheValue(header)

\* request_id = request.headers.get("X-Request-ID");
\* if not request_id: request_id = str(uuid.uuid4())
RequestIdFor(header, fresh) ==
    IF IsNone(header) \/ TheValue(header) = "" THEN fresh ELSE TheValue(header)

ErrorResponseWithText(e, state) ==
    [status_code |-> 500, headers |-> <<>>,
     content |-> [error |-> IF e.type = "MarketPulseError"
                              THEN TheValue(e.code) ELSE "INTERNAL_ERROR",
                  message |-> e.text,
                  request_id |-> state.request_id]]

\* the two except branches of ErrorHandlerMiddleware.dispatch;
\* getattr(request.state, "request_id", None) is state.request_id
ErrorResponse(e, state) ==
    IF e.type = "MarketPulseError"
    THEN [status_code |-> 500, headers |-> <<>>,
          content |-> [error |-> TheValue(e.code),
                       message |-> TheValue(e.message),
                       details |-> TheValue(e.details),
                       request_id |-> state.request_id]]
    ELSE [status_code |-> 500, headers |-> <<>>,
          content |-> [error |-> "INTERNAL_ERROR",
                       message |-> "An unexpected error occurred",
                       request_id |-> state.request_id]]

\* response.headers["X-Request-ID"] = request_id
WithRequestIdHeader(response, request_id) ==
    [response EXCEPT !.headers = [X_Request_ID |-> request_id] @@ @]

InitHttp ==
    /\ \E stack \in Stacks :
          http = [pc |-> "idle", stack |-> stack, level |-> 0, n |-> 0,
                  op |-> "none",
                  headers |-> [x_request_id |-> None, x_user_id |-> None],
                  state |-> [request_id |-> None],
                  request_id |-> None,
                  issued |-> {},
                  raised |-> None,
                  received |-> <<>>,
                  outcome |-> None]
    /\ logContext = <<>>
    /\ SummaryIdle /\ ChatIdle /\ CacheIdle /\ OrchIdle /\ RunIdle /\ FnIdle

HttpUnchanged == UNCHANGED <<sgVars, chatVars, cacheVars, orchVars, fnVars, rtVars>>

\* a request arrives; the context variables are whatever the earlier
\* request left bound (the least favourable case for a leak)
Receive(x_request_id, x_user_id) ==
    /\ http.pc \in { "idle", "done" }
    /\ http.n < MaxRequests
    /\ http' = [http EXCEPT !.pc = "in", !.level = 1, !.n = @ + 1,
                            !.op = "receive",
                            !.headers = [x_request_id |-> x_request_id,
                                         x_user_id |-> x_user_id],
                            !.state = [request_id |-> None],
                            !.request_id = None,
                            !.raised = None,
                            !.received = logContext,
                            !.outcome = None]
    /\ UNCHANGED logContext
    /\ HttpUnchanged

Inwards == [http EXCEPT !.level = @ + 1,
                        !.pc = IF http.level = Len(http.stack)
                                 THEN "handler" ELSE "in"]

\* RequestIDMiddleware.dispatch up to `await call_next(request)`
RequestIdBefore(fresh) ==
    /\ http.pc = "in"
    /\ http.stack[http.level] = "request_id"
    /\ fresh \notin http.issued
    /\ LET request_id == RequestIdFor(http.headers.x_request_id, fresh)
           user_id    == http.headers.x_user_id
       IN  /\ logContext' = BindRequestContext(logContext, request_id, user_id)
           /\ http' = [Inwards EXCEPT
                          !.op = "request_id.before",
                          !.state = [request_id |-> Some(request_id)],
                          !.request_id = Some(request_id),
                          !.issued = IF request_id = fresh
                                       THEN @ \cup { fresh } ELSE @]
    /\ HttpUnchanged

\* ErrorHandlerMiddleware.dispatch up to `await call_next(request)`
ErrorHandlerBefore ==
    /\ http.pc = "in"
    /\ http.stack[http.level] = "error_handler"
    /\ http' = [Inwards EXCEPT !.op = "error_handler.before"]
    /\ UNCHANGED logContext
    /\ HttpUnchanged

\* the downstream handler has an agent bind its context
BindAgentContextCall(agent_name, kwargs) ==
    /\ http.pc = "handler"
    /\ logContext' = BindAgentContext(logContext, agent_name, kwargs)
    /\ http' = [http EXCEPT !.op = "bind_agent_context"]
    /\ HttpUnchanged

\* clear_context()
ClearContextCall ==
    /\ http.pc = "handler"
    /\ logContext' = ClearContextvars(logContext)
    /\ http' = [http EXCEPT !.op = "clear_context"]
    /\ HttpUnchanged

\* the downstream handler returns a response or raises
Handle(outcome) ==
    /\ http.pc = "handler"
    /\ http' = [http EXCEPT !.pc = "out", !.level = Len(http.stack),
                            !.op = "handler",
                            !.raised = outcome.exc,
                            !.outcome = Some(outcome)]
    /\ UNCHANGED logContext
    /\ HttpUnchanged

Outwards == [http EXCEPT !.level = @ - 1,
                         !.pc = IF http.level = 1 THEN "done" ELSE "out"]

\* RequestIDMiddleware.dispatch after `await call_next(request)`: an
\* exception of call_next leaves the method at the await
RequestIdAfter ==
    /\ http.pc = "out"
    /\ http.stack[http.level] = "request_id"
    /\ LET outcome == TheValue(http.outcome)
       IN  http' = [Outwards EXCEPT
                       !.op = "request_id.after",
                       !.outcome =
                           IF outcome.kind = "response"
                           THEN Some(RespondedWith(WithRequestIdHeader(
                                        TheValue(outcome.response),
                                        TheValue(http.request_id))))
                           ELSE @]
    /\ UNCHANGED logContext
    /\ HttpUnchanged

\* ErrorHandlerMiddleware.dispatch after `await call_next(request)`
ErrorHandlerAfter ==
    /\ http.pc = "out"
    /\ http.stack[http.level] = "error_handler"
    /\ LET outcome == TheValue(http.outcome)
       IN  http' = [Outwards EXCEPT
                       !.op = "error_handler.after",
                       !.outcome =
                           IF outcome.kind = "raised"
                           THEN Some(RespondedWith(ErrorResponse(
                                        TheValue(outcome.exc), http.state)))
                           ELSE @]
    /\ UNCHANGED logContext
    /\ HttpUnchanged

NextHttp ==
    \/ \E x_request_id \in RequestIdHeaders, x_user_id \in UserIdHeaders :
          Receive(x_request_id, x_user_id)
    \/ \E fresh \in FreshIds : RequestIdBefore(fresh)
    \/ ErrorHandlerBefore
    \/ \E agent_name \in BoundAgentNames, kwargs \in AgentKwargs :
          BindAgentContextCall(agent_name, kwargs)
    \/ ClearContextCall
    \/ \E outcome \in HandlerOutcomes : Handle(outcome)
    \/ RequestIdAfter
    \/ ErrorHandlerAfter

SpecHttp == InitHttp /\ [][NextHttp]_vars

(***************************************************************************)
(* Properties of the middlewares and of the logging context                *)
(***************************************************************************)

ErrorHandlerActed == http.op = "error_handler.after" /\ ~IsNone(http.raised)

\* C37: the error handler lets no exception of the downstream handler
\* propagate: the exception becomes a status-500 JSON response carrying the
\* request's request_id; a MarketPulseError gives its own code, message and
\* details, any other exception the code INTERNAL_ERROR and a generic
\* message without the exception text.
C37_ExceptionsBecomeErrorResponses ==
    /\ http.pc = "done" => TheValue(http.outcome).kind = "response"
    /\ ErrorHandlerActed =>
          LET e       == TheValue(http.raised)
              outcome == TheValue(http.outcome)
          IN  /\ outcome.kind = "response"
              /\ LET response == TheValue(outcome.response)
                     content  == response.content
                 IN  /\ response.status_code = 500
                     /\ ~IsNone(http.request_id)
                     /\ content.request_id = http.request_id
                     /\ e.type = "MarketPulseError" =>
                           /\ DOMAIN content =
                                 { "error", "message", "details", "request_id" }
                           /\ content.error = TheValue(e.code)
                           /\ content.message = TheValue(e.message)
                           /\ content.details = TheValue(e.details)
                     /\ e.type # "MarketPulseError" =>
                           /\ DOMAIN content = { "error", "message", "request_id" }
                           /\ content.error = "INTERNAL_ERROR"
                           /\ content.message = "An unexpected error occurred"
                           /\ content.message # e.text

\* both branches have been taken, under either order of the middlewares
C37_Witness ==
    /\ ErrorHandlerActed
    /\ TheValue(http.raised).type = "KeyError"
    /\ http.stack[1] = "error_handler"
    /\ http.n = 2
    /\ http.headers.x_request_id = Some("client-1")
    /\ TheValue(TheValue(http.outcome).response).content.request_id = Some("client-1")

MarketPulseErrorReported ==
    ~ ( /\ ErrorHandlerActed
        /\ TheValue(http.raised).type = "MarketPulseError"
        /\ TheValue(http.raised).code = Some("AGENT_TIMEOUT")
        /\ http.stack[1] = "request_id"
        /\ http.pc = "out" )

\* when the error handler is the outer middleware its error response goes
\* out without the X-Request-ID header: the exception left
\* RequestIDMiddleware.dispatch at the await
ErrorResponseWithoutHeader ==
    ~ ( /\ http.pc = "done"
        /\ ~IsNone(http.raised)
        /\ "X_Request_ID" \notin
              DOMAIN TheValue(TheValue(http.outcome).response).headers )

HeaderSupplied ==
    /\ ~IsNone(http.headers.x_request_id)
    /\ TheValue(http.headers.x_request_id) # ""

\* the identifier the request is to have: the supplied non-empty header,
\* otherwise a generated one
IsTheRequestsId(id) ==
    IF HeaderSupplied THEN id = TheValue(http.headers.x_request_id)
                      ELSE id \in FreshIds

ResponseReturnedThroughRequestId ==
    /\ http.op = "request_id.after"
    /\ TheValue(http.outcome).kind = "response"

\* C38: when the downstream handler returns a response, its X-Request-ID
\* header is the request's X-Request-ID header if that was supplied and
\* non-empty, and a generated identifier otherwise; the same identifier is
\* stored in request.state.request_id and was bound to the logging context.
C38_ResponseCarriesRequestId ==
    /\ http.op = "request_id.before" =>
          /\ ~IsNone(http.request_id)
          /\ IsTheRequestsId(TheValue(http.request_id))
          /\ http.state.request_id = http.request_id
          /\ logContext.request_id = TheValue(http.request_id)
    /\ ResponseReturnedThroughRequestId =>
          LET response == TheValue(TheValue(http.outcome).response)
          IN  /\ "X_Request_ID" \in DOMAIN response.headers
              /\ IsTheRequestsId(response.headers.X_Request_ID)
              /\ http.state.request_id = Some(response.headers.X_Request_ID)

\* an empty header was replaced by a generated identifier
C38_Witness ==
    /\ ResponseReturnedThroughRequestId
    /\ http.headers.x_request_id = Some("")
    /\ IsNone(http.raised)
    /\ TheValue(TheValue(http.outcome).response).headers.X_Request_ID \in FreshIds

SuppliedIdEchoed ==
    ~ ( /\ ResponseReturnedThroughRequestId
        /\ HeaderSupplied
        /\ http.n = 2
        /\ TheValue(TheValue(http.outcome).response).headers.X_Request_ID = "client-1" )

\* C39: right after bind_request_context(r, u) the bound context is exactly
\* {request_id: r, user_id: u}, whatever an earlier request left bound.
C39_RequestContextIsExact ==
    http.op = "request_id.before" =>
        logContext = [request_id |-> TheValue(http.request_id),
                      user_id |-> http.headers.x_user_id]

\* the second request arrived with the agent context of the first still
\* bound, request_id overwritten by the agent included
C39_Witness ==
    /\ http.op = "request_id.before"
    /\ http.n = 2
    /\ "agent" \in DOMAIN http.received
    /\ http.received.request_id = "agent-run-7"
    /\ DOMAIN logContext = { "request_id", "user_id" }
    /\ logContext.request_id = "client-1"

AgentContextAddsToRequestContext ==
    ~ ( /\ http.op = "bind_agent_context"
        /\ DOMAIN logContext = { "request_id", "user_id", "agent", "ticker" } )

====
